---- MODULE Spec2Model ----
(***************************************************************************)
(* sensei-mcp: the template pipeline of src/src/prompts.ts (metadata       *)
(* parsing, variable extraction, resource embedding, registration and the  *)
(* tool handler), the directory scans of src/src/resources.ts and          *)
(* src/src/prompts.ts, and the start of the server in src/src/server.ts.   *)
(* A text is a sequence of one-character strings, so that the regular      *)
(* expressions and the String methods of the source are modelled character *)
(* by character.                                                           *)
(***************************************************************************)
EXTENDS Integers, Sequences, FiniteSets, TLC

VARIABLES
  pc,                \* position of the caller: "ready" before the call, "done" after;
                     \* in the life cycle, the step startServer has reached
  fixture,           \* what the input text was built from (lines, a record, parts);
                     \* in the life cycle, the file system
  rawContent,        \* the text handed to parseMetadata
  metadata,          \* parseMetadata(...).metadata
  content,           \* parseMetadata(...).content; also the input of the later stages
  resourceMap,       \* Map<string, string> of loadResources, keyed by file://<path>
  processedContent,  \* result of processPromptContent
  variables,         \* result of extractVariables
  server,            \* the McpServer: its instructions, registrations and transport
  files,             \* the directory entries the running scan has yet to visit
  log,               \* what Logger has written, oldest first
  request,           \* the request being served: a prompt or tool name and its inputs
  reply,             \* the text of the last response, <<>> before any
  exitCode           \* <<>> while the process runs, <<n>> after process.exit(n)

vars == <<pc, fixture, rawContent, metadata, content, resourceMap,
          processedContent, variables, server, files, log, request, reply,
          exitCode>>

\* The variables of the server's life cycle, and their values while a
\* single function of the pipeline is exercised on its own.
serverVars == <<server, files, log, request, reply, exitCode>>

NoServer ==
  /\ server = <<>>
  /\ files = <<>>
  /\ log = <<>>
  /\ request = <<>>
  /\ reply = <<>>
  /\ exitCode = <<>>

----------------------------------------------------------------------------
(* Bounds of the model. *)

MaxLines == 6
MaxMetaLines == 2
MaxVarParts == 4
MaxResParts == 3
MaxToolParts == 2
MaxResourceEntries == 2
MaxPromptEntries == 2

----------------------------------------------------------------------------
(* Characters and the String methods the source uses. *)

Min(S) == CHOOSE x \in S : \A y \in S : x <= y
Max(S) == CHOOSE x \in S : \A y \in S : x >= y

\* The character ` (U+0060), which a TLA+ string cannot hold.
GraveAccent == "grave"

\* JavaScript's \s, for the characters of the model's alphabet.
WhitespaceChars == {" ", "\t", "\n", "\r"}

IsWhitespace(c) == c \in WhitespaceChars

\* [a-zA-Z0-9_]
WordChars ==
  {"a","b","c","d","e","f","g","h","i","j","k","l","m","n","o","p","q","r",
   "s","t","u","v","w","x","y","z","A","B","C","D","E","F","G","H","I","J",
   "K","L","M","N","O","P","Q","R","S","T","U","V","W","X","Y","Z","0","1",
   "2","3","4","5","6","7","8","9","_"}

UpperChars == <<"A", "B", "C", "D", "E", "F", "G", "H", "I", "J", "K", "L", "M", "N", "O", "P", "Q", "R", "S", "T", "U", "V", "W", "X", "Y", "Z">>
LowerChars == <<"a", "b", "c", "d", "e", "f", "g", "h", "i", "j", "k", "l", "m", "n", "o", "p", "q", "r", "s", "t", "u", "v", "w", "x", "y", "z">>

toLowerCaseChar(c) ==
  IF \E i \in 1..26 : UpperChars[i] = c
  THEN LowerChars[CHOOSE i \in 1..26 : UpperChars[i] = c]
  ELSE c

\* String.prototype.toLowerCase
toLowerCase(s) == [i \in 1..Len(s) |-> toLowerCaseChar(s[i])]

toUpperCaseChar(c) ==
  IF \E i \in 1..26 : LowerChars[i] = c
  THEN UpperChars[CHOOSE i \in 1..26 : LowerChars[i] = c]
  ELSE c

\* String.prototype.toUpperCase
toUpperCase(s) == [i \in 1..Len(s) |-> toUpperCaseChar(s[i])]

\* String.prototype.trim
trim(s) ==
  LET keep == {i \in 1..Len(s) : ~IsWhitespace(s[i])}
  IN IF keep = {} THEN <<>> ELSE SubSeq(s, Min(keep), Max(keep))

\* String.prototype.indexOf for a one-character needle: 0-based, -1 if absent.
indexOf(s, c) ==
  LET hits == {i \in 1..Len(s) : s[i] = c}
  IN IF hits = {} THEN -1 ELSE Min(hits) - 1

\* String.prototype.lastIndexOf for a one-character needle.
lastIndexOf(s, c) ==
  LET hits == {i \in 1..Len(s) : s[i] = c}
  IN IF hits = {} THEN -1 ELSE Max(hits) - 1

\* String.prototype.substring(start, end) and substring(start), 0-based.
substring(s, start, end) == SubSeq(s, start + 1, end)

substringFrom(s, start) == SubSeq(s, start + 1, Len(s))

\* String.prototype.split for a one-character separator.
RECURSIVE split(_, _)
split(s, sep) ==
  LET i == indexOf(s, sep)
  IN IF i = -1 THEN <<s>>
     ELSE <<SubSeq(s, 1, i)>> \o split(SubSeq(s, i + 2, Len(s)), sep)

\* Array.prototype.join.
RECURSIVE join(_, _)
join(parts, sep) ==
  IF Len(parts) = 0 THEN <<>>
  ELSE IF Len(parts) = 1 THEN parts[1]
  ELSE parts[1] \o sep \o join(Tail(parts), sep)

\* The literal lit occurs in s at (1-based) position i.
MatchesAt(s, i, lit) ==
  /\ i >= 1
  /\ i + Len(lit) - 1 <= Len(s)
  /\ SubSeq(s, i, i + Len(lit) - 1) = lit

\* String.prototype.startsWith
startsWith(s, lit) == MatchesAt(s, 1, lit)

\* String.prototype.indexOf for a string needle from (1-based) position from:
\* the 1-based position of the first occurrence, 0 if there is none.
FindFrom(s, lit, from) ==
  LET hits == {i \in from..Len(s) + 1 : MatchesAt(s, i, lit) \/ (Len(lit) = 0 /\ i <= Len(s) + 1)}
  IN IF hits = {} THEN 0 ELSE Min(hits)

----------------------------------------------------------------------------
(* METADATA_PATTERN = /^---\s*\n([\s\S]*?)\n---\s*\n/ *)

\* Length of the whitespace run of s that starts at position i.
WsRun(s, i) ==
  LET stops == {j \in i..Len(s) : ~IsWhitespace(s[j])}
  IN IF i > Len(s) THEN 0
     ELSE IF stops = {} THEN Len(s) - i + 1
     ELSE Min(stops) - i

\* The lengths k that \s* can take at position i so that "\n" comes next.
NewlineCuts(s, i) == {k \in 0..(WsRun(s, i) - 1) : s[i + k] = "\n"}

\* The closing \s* taken lazily: it stops at the first "\n".
ClosingCutLazy(s, i) == Min(NewlineCuts(s, i))

\* The closing \s* is greedy: it runs to the last "\n" of the whitespace run.
ClosingCut(s, i) == Max(NewlineCuts(s, i))

NoMatch == [found |-> FALSE, index |-> 0, group1 |-> <<>>, length |-> 0]

\* The match of ---\s*\n([\s\S]*?)\n---\s*\n that starts at position start,
\* found in the order a backtracking matcher tries: the opening \s* greedy,
\* the group lazy, the closing \s* greedy.
MetadataMatchAt(s, start) ==
  IF ~MatchesAt(s, start, <<"-", "-", "-">>) THEN NoMatch
  ELSE
    LET o == start + 3
        Closes(g) == {e \in g..Len(s) : /\ MatchesAt(s, e, <<"\n", "-", "-", "-">>)
                                        /\ NewlineCuts(s, e + 4) # {}}
        good == {k \in NewlineCuts(s, o) : Closes(o + k + 1) # {}}
    IN IF good = {} THEN NoMatch
       ELSE LET k == Max(good)
                g == o + k + 1
                e == Min(Closes(g))
                j == ClosingCut(s, e + 4)
            IN [found |-> TRUE, index |-> start - 1,
                group1 |-> SubSeq(s, g, e - 1),
                length |-> e + 4 + j - (start - 1)]

\* The pattern without its ^ anchor: the first position where it matches.
MetadataMatchUnanchored(s) ==
  LET starts == {i \in 1..Len(s) : MetadataMatchAt(s, i).found}
  IN IF starts = {} THEN NoMatch ELSE MetadataMatchAt(s, Min(starts))

\* content.match(METADATA_PATTERN): the pattern is anchored at the start.
METADATA_PATTERN(s) == MetadataMatchAt(s, 1)

----------------------------------------------------------------------------
(* parseMetadata.  A PromptMetadata field is <<>> when it is not set and   *)
(* <<v>> when it holds v; a string v is a text, a flag v is a BOOLEAN.     *)

EmptyMetadata ==
  [description |-> <<>>, registerAsTool |-> <<>>, toolName |-> <<>>,
   name |-> <<>>, role |-> <<>>, registerAsPrompt |-> <<>>]

\* const colonIndex = line.lastIndexOf(':')
colonIndexLast(line) == lastIndexOf(line, ":")

\* const colonIndex = line.indexOf(':')
colonIndex(line) == indexOf(line, ":")

\* value === 'true', without the toLowerCase()
isTrueExact(value) == value = <<"t", "r", "u", "e">>

\* value.toLowerCase() === 'true'
isTrue(value) == toLowerCase(value) = <<"t", "r", "u", "e">>

\* if (key)
hasKeyOnly(key, value) == key # <<>>

\* if (key && value)
hasKeyAndValue(key, value) == key # <<>> /\ value # <<>>

\* The switch over the lower-cased key.
setField(md, key, value) ==
  CASE key = <<"d", "e", "s", "c", "r", "i", "p", "t", "i", "o", "n">> -> [md EXCEPT !.description = <<value>>]
    [] key = <<"n", "a", "m", "e">> -> [md EXCEPT !.name = <<value>>]
    [] key = <<"r", "o", "l", "e">> -> [md EXCEPT !.role = <<value>>]
    [] key \in {<<"r", "e", "g", "i", "s", "t", "e", "r", "_", "a", "s", "_", "p", "r", "o", "m", "p", "t">>, <<"r", "e", "g", "i", "s", "t", "e", "r", "a", "s", "p", "r", "o", "m", "p", "t">>} ->
         [md EXCEPT !.registerAsPrompt = <<isTrue(value)>>]
    [] key \in {<<"r", "e", "g", "i", "s", "t", "e", "r", "_", "a", "s", "_", "t", "o", "o", "l">>, <<"r", "e", "g", "i", "s", "t", "e", "r", "a", "s", "t", "o", "o", "l">>} ->
         [md EXCEPT !.registerAsTool = <<isTrue(value)>>]
    [] key \in {<<"t", "o", "o", "l", "_", "n", "a", "m", "e">>, <<"t", "o", "o", "l", "n", "a", "m", "e">>} -> [md EXCEPT !.toolName = <<value>>]
    [] OTHER -> md

\* const key = line.substring(0, colonIndex).trim(), without toLowerCase()
lineKeyCaseSensitive(line, ci) == trim(substring(line, 0, ci))

\* const key = line.substring(0, colonIndex).trim().toLowerCase()
lineKey(line, ci) == toLowerCase(trim(substring(line, 0, ci)))

\* The body of the loop over the lines of the block.
parseLine(md, line) ==
  LET ci == colonIndex(line)
  IN IF ci > 0
     THEN LET key == lineKey(line, ci)
              value == trim(substringFrom(line, ci + 1))
          IN IF hasKeyAndValue(key, value) THEN setField(md, key, value) ELSE md
     ELSE md

RECURSIVE parseLines(_, _)
parseLines(md, lines) ==
  IF lines = <<>> THEN md
  ELSE parseLines(parseLine(md, Head(lines)), Tail(lines))

parseMetadata(c) ==
  LET metadataMatch == METADATA_PATTERN(c)
  IN IF metadataMatch.found
     THEN [metadata |->
             IF trim(metadataMatch.group1) # <<>>
             THEN parseLines(EmptyMetadata, split(metadataMatch.group1, "\n"))
             ELSE EmptyMetadata,
           content |-> substringFrom(c, metadataMatch.length)]
     ELSE [metadata |-> EmptyMetadata, content |-> c]

----------------------------------------------------------------------------
(* The call of parseMetadata on a text (loadPrompts, and the unit tests).  *)

SeqsUpTo(S, n) == UNION {[1..k -> S] : k \in 0..n}

NL == <<"\n">>

ParseMetadataCall ==
  /\ pc = "ready"
  /\ LET r == parseMetadata(rawContent)
     IN /\ metadata' = r.metadata
        /\ content' = r.content
  /\ pc' = "done"
  /\ UNCHANGED <<fixture, rawContent, resourceMap, processedContent, variables, serverVars>>

\* Texts of up to MaxLines lines: delimiter lines, blank lines, key/value lines.
StripLines == {<<"-", "-", "-">>, <<"-", "-", "-", " ">>, <<>>, <<" ">>, <<"n", "a", "m", "e", ":", " ", "a">>}

InitStrip ==
  /\ pc = "ready"
  /\ NoServer
  /\ fixture = <<>>
  /\ rawContent \in {join(ls, NL) : ls \in SeqsUpTo(StripLines, MaxLines)}
  /\ metadata = EmptyMetadata
  /\ content = <<>>
  /\ resourceMap = <<>>
  /\ processedContent = <<>>
  /\ variables = <<>>

SpecStrip == InitStrip /\ [][ParseMetadataCall]_vars

----------------------------------------------------------------------------
(* Claims about the stripping of the metadata block (SpecStrip). *)

Lines == split(rawContent, "\n")

\* A line that holds --- and, after it, white space only.
IsDelimiterLine(l) == startsWith(l, <<"-", "-", "-">>) /\ trim(substringFrom(l, 3)) = <<>>

IsKeyValueLine(l) == indexOf(l, ":") > 0

IsBlankLine(l) == trim(l) = <<>>

\* The text begins with an empty block: a delimiter line, at once another
\* delimiter line, an empty line, and a body (which may be empty).
EmptyBlockInput(ls) ==
  /\ Len(ls) >= 4
  /\ IsDelimiterLine(ls[1])
  /\ IsDelimiterLine(ls[2])
  /\ ls[3] = <<>>

\* The index of the last key/value line of the run that starts at line 2.
KeyValueEnd(ls) ==
  LET stops == {i \in 2..Len(ls) : ~IsKeyValueLine(ls[i])}
  IN IF stops = {} THEN Len(ls) ELSE Min(stops) - 1

\* The text begins with a non-empty block: a delimiter line, one or more
\* key/value lines, a delimiter line, an empty line, and a body.
NonEmptyBlockInput(ls) ==
  LET k == KeyValueEnd(ls)
  IN /\ Len(ls) >= 1
     /\ IsDelimiterLine(ls[1])
     /\ k >= 2
     /\ Len(ls) >= k + 3
     /\ IsDelimiterLine(ls[k + 1])
     /\ ls[k + 2] = <<>>

BodyLines(ls) == SubSeq(ls, KeyValueEnd(ls) + 3, Len(ls))

\* The lines of a body without its leading white-space-only lines (the last
\* line, which no newline follows, stays).
RECURSIVE DropLeadingBlankLines(_)
DropLeadingBlankLines(ls) ==
  IF Len(ls) >= 2 /\ IsBlankLine(ls[1]) THEN DropLeadingBlankLines(Tail(ls))
  ELSE ls

\* C1: on a text that begins with an empty metadata block (--- line, ---
\* line, blank line, body) parseMetadata returns empty metadata and a content
\* that holds neither delimiter line: the body, with or without the blank
\* line before it.
C1_EmptyBlockStripped ==
  (pc = "done" /\ EmptyBlockInput(Lines)) =>
    /\ metadata = EmptyMetadata
    /\ content \in {join(SubSeq(Lines, 3, Len(Lines)), NL),
                    join(SubSeq(Lines, 4, Len(Lines)), NL)}

\* C2 as stated: on a text that begins with a non-empty block followed by a
\* blank line, the returned content is exactly the body (what follows the
\* blank line), starting with the first body line.
C2_ContentIsBody ==
  (pc = "done" /\ NonEmptyBlockInput(Lines)) =>
    content = join(BodyLines(Lines), NL)

\* C2 amended: the returned content is the body without its leading
\* white-space-only lines (the match runs to the last newline of the white
\* space after the closing delimiter); it is a suffix of the input.
C2_ContentIsBodyWithoutLeadingBlankLines ==
  (pc = "done" /\ NonEmptyBlockInput(Lines)) =>
    /\ content = join(DropLeadingBlankLines(BodyLines(Lines)), NL)
    /\ Len(content) <= Len(rawContent)
    /\ content = SubSeq(rawContent, Len(rawContent) - Len(content) + 1,
                        Len(rawContent))

\* A body that starts with a blank line and goes on with a key/value line.
C2_Witness ==
  /\ pc = "done"
  /\ NonEmptyBlockInput(Lines)
  /\ Len(BodyLines(Lines)) = 2
  /\ BodyLines(Lines)[1] = <<>>
  /\ content = <<"n", "a", "m", "e", ":", " ", "a">>
  /\ metadata.name = <<<<"a">>>>

\* The text begins with a delimited block: its first line is a delimiter
\* line and a later line, which a newline ends, is one too.
BeginsWithBlock(ls) ==
  /\ Len(ls) >= 2
  /\ IsDelimiterLine(ls[1])
  /\ \E i \in 2..(Len(ls) - 1) : IsDelimiterLine(ls[i])

\* C3: on a text that does not begin with a delimited metadata block
\* parseMetadata returns empty metadata and the text unchanged.
C3_NoBlockUnchanged ==
  (pc = "done" /\ ~BeginsWithBlock(Lines)) =>
    (metadata = EmptyMetadata /\ content = rawContent)

\* A text with a whole block that is not at its start.
C3_Witness ==
  /\ pc = "done"
  /\ ~BeginsWithBlock(Lines)
  /\ Len(Lines) >= 4
  /\ IsKeyValueLine(Lines[1])
  /\ IsDelimiterLine(Lines[2])
  /\ IsKeyValueLine(Lines[3])
  /\ IsDelimiterLine(Lines[4])
  /\ Len(Lines) >= 5
  /\ content = rawContent

----------------------------------------------------------------------------
(* Metadata blocks built from a table of lines (SpecFields).  A line is    *)
(* key ++ ":" ++ rest, the key holding no colon, or a text without colon;  *)
(* field names the PromptMetadata field its key spells, "none" if none.    *)

StringFields == {"description", "name", "role", "toolName"}

FlagFields == {"registerAsTool", "registerAsPrompt"}

MetaLines ==
  { [colon |-> TRUE, key |-> <<"d", "e", "s", "c", "r", "i", "p", "t", "i", "o", "n">>, rest |-> <<" ", "a", ":", " ", "b">>, field |-> "description"],
    [colon |-> TRUE, key |-> <<"D", "E", "S", "C", "R", "I", "P", "T", "I", "O", "N">>, rest |-> <<" ", " ", "c", ":", ":", "d", " ", " ">>, field |-> "description"],
    [colon |-> TRUE, key |-> <<" ", "N", "a", "m", "e", " ">>, rest |-> <<" ", "n">>, field |-> "name"],
    [colon |-> TRUE, key |-> <<"r", "o", "l", "e">>, rest |-> <<"r", ":">>, field |-> "role"],
    [colon |-> TRUE, key |-> <<"r", "e", "g", "i", "s", "t", "e", "r", "A", "s", "T", "o", "o", "l">>, rest |-> <<" ", "t", "r", "u", "e">>, field |-> "registerAsTool"],
    [colon |-> TRUE, key |-> <<"r", "e", "g", "i", "s", "t", "e", "r", "_", "a", "s", "_", "t", "o", "o", "l">>, rest |-> <<" ", "T", "R", "U", "E", " ">>, field |-> "registerAsTool"],
    [colon |-> TRUE, key |-> <<"r", "e", "g", "i", "s", "t", "e", "r", "a", "s", "t", "o", "o", "l">>, rest |-> <<" ", "y", "e", "s">>, field |-> "registerAsTool"],
    [colon |-> TRUE, key |-> <<"R", "E", "G", "I", "S", "T", "E", "R", "_", "A", "S", "_", "T", "O", "O", "L">>, rest |-> <<" ", "t", "r", "u", "e", ":">>, field |-> "registerAsTool"],
    [colon |-> TRUE, key |-> <<"t", "o", "o", "l", "N", "a", "m", "e">>, rest |-> <<" ", "t", ":", "1">>, field |-> "toolName"],
    [colon |-> TRUE, key |-> <<"T", "o", "o", "l", "_", "N", "a", "m", "e">>, rest |-> <<" ", "u">>, field |-> "toolName"],
    [colon |-> TRUE, key |-> <<"r", "e", "g", "i", "s", "t", "e", "r", "A", "s", "P", "r", "o", "m", "p", "t">>, rest |-> <<" ", "t", "R", "u", "E">>, field |-> "registerAsPrompt"],
    [colon |-> TRUE, key |-> <<"r", "e", "g", "i", "s", "t", "e", "r", "_", "a", "s", "_", "p", "r", "o", "m", "p", "t">>, rest |-> <<" ", "f", "a", "l", "s", "e">>, field |-> "registerAsPrompt"],
    [colon |-> FALSE, key |-> <<"n", "o", " ", "c", "o", "l", "o", "n", " ", "h", "e", "r", "e">>, rest |-> <<>>, field |-> "none"],
    [colon |-> TRUE, key |-> <<>>, rest |-> <<" ", "v">>, field |-> "none"],
    [colon |-> TRUE, key |-> <<" ">>, rest |-> <<"v">>, field |-> "none"],
    [colon |-> TRUE, key |-> <<"n", "a", "m", "e">>, rest |-> <<" ", " ">>, field |-> "name"],
    [colon |-> TRUE, key |-> <<"o", "t", "h", "e", "r">>, rest |-> <<" ", "z">>, field |-> "none"],
    [colon |-> TRUE, key |-> <<"t", "o", "o", "l", "-", "n", "a", "m", "e">>, rest |-> <<" ", "w">>, field |-> "none"] }

LineText(d) == IF d.colon THEN d.key \o <<":">> \o d.rest ELSE d.key

BlockText(ds) ==
  <<"-", "-", "-", "\n">> \o join([i \in 1..Len(ds) |-> LineText(ds[i])], NL) \o <<"\n", "-", "-", "-", "\n", "\n", "B", "o", "d", "y">>

InitFields ==
  /\ pc = "ready"
  /\ NoServer
  /\ fixture \in SeqsUpTo(MetaLines, MaxMetaLines) \ {<<>>}
  /\ rawContent = BlockText(fixture)
  /\ metadata = EmptyMetadata
  /\ content = <<>>
  /\ resourceMap = <<>>
  /\ processedContent = <<>>
  /\ variables = <<>>

SpecFields == InitFields /\ [][ParseMetadataCall]_vars

\* A line that the claims call well formed: a colon, a key and a value.
WellFormed(d) == d.colon /\ trim(d.key) # <<>> /\ trim(d.rest) # <<>>

\* The lines of the fixture that name field f and are well formed.
LinesOf(f) == {i \in 1..Len(fixture) : fixture[i].field = f /\ WellFormed(fixture[i])}

\* The 16 spellings of "true" in upper and lower case.
TrueSpellings ==
  {s \in [1..4 -> {"t", "T", "r", "R", "u", "U", "e", "E"}] :
     \A i \in 1..4 : s[i] \in {<<"t", "r", "u", "e">>[i], <<"T", "R", "U", "E">>[i]}}

\* C4: each metadata line is split on its first colon only: the value stored
\* for a string field is the trimmed text after the first colon of the (last)
\* line that names the field, further colons included.
C4_SplitOnFirstColon ==
  pc = "done" =>
    \A f \in StringFields :
      LinesOf(f) # {} => metadata[f] = <<trim(fixture[Max(LinesOf(f))].rest)>>

\* A value with a colon, and one with two, were stored whole.
C4_Witness ==
  /\ pc = "done"
  /\ metadata.toolName = <<<<"t", ":", "1">>>>
  /\ metadata.description = <<<<"c", ":", ":", "d">>>>

\* C5: the alias spellings of a key, in any letter case, set the same field,
\* and a flag is TRUE exactly when its trimmed value is "true" in some letter
\* case, FALSE for every other non-empty value.
C5_AliasesAndFlags ==
  pc = "done" =>
    /\ \A f \in FlagFields :
         LinesOf(f) # {} =>
           metadata[f] = <<trim(fixture[Max(LinesOf(f))].rest) \in TrueSpellings>>
    /\ \A i \in 1..Len(fixture) :
         (fixture[i].field # "none" /\ WellFormed(fixture[i])) =>
           metadata[fixture[i].field] # <<>>

\* An upper-case value under a snake-case alias, a mixed-case value under the
\* camel-case alias.
C5_Witness ==
  /\ pc = "done"
  /\ Len(fixture) = 2
  /\ fixture[1].key = <<"r", "e", "g", "i", "s", "t", "e", "r", "_", "a", "s", "_", "t", "o", "o", "l">> /\ fixture[1].rest = <<" ", "T", "R", "U", "E", " ">>
  /\ fixture[2].key = <<"r", "e", "g", "i", "s", "t", "e", "r", "A", "s", "P", "r", "o", "m", "p", "t">> /\ fixture[2].rest = <<" ", "t", "R", "u", "E">>
  /\ metadata.registerAsTool = <<TRUE>>
  /\ metadata.registerAsPrompt = <<TRUE>>

\* C6: a line without a colon, with an empty key or value, or with an
\* unrecognized key sets no field, and the recognized lines of the same block
\* are parsed all the same: a field is set exactly when a well-formed line of
\* the block names it.
C6_MalformedLinesSkipped ==
  pc = "done" =>
    \A f \in StringFields \cup FlagFields :
      (metadata[f] # <<>>) <=> (LinesOf(f) # {})

\* A line without a colon before a recognized line, which was parsed.
C6_Witness ==
  /\ pc = "done"
  /\ Len(fixture) = 2
  /\ ~fixture[1].colon
  /\ fixture[2].key = <<"r", "o", "l", "e">>
  /\ metadata = [EmptyMetadata EXCEPT !.role = <<<<"r", ":">>>>]

----------------------------------------------------------------------------
(* Round trip (SpecRoundTrip): a metadata record is written as a block of  *)
(* key: value lines, one for each field that is set, and parsed back.      *)

FieldOrder == <<"description", "name", "role", "registerAsPrompt", "registerAsTool", "toolName">>

FieldKey(f) ==
  CASE f = "description" -> <<"d", "e", "s", "c", "r", "i", "p", "t", "i", "o", "n">>
    [] f = "name" -> <<"n", "a", "m", "e">>
    [] f = "role" -> <<"r", "o", "l", "e">>
    [] f = "registerAsPrompt" -> <<"r", "e", "g", "i", "s", "t", "e", "r", "A", "s", "P", "r", "o", "m", "p", "t">>
    [] f = "registerAsTool" -> <<"r", "e", "g", "i", "s", "t", "e", "r", "A", "s", "T", "o", "o", "l">>
    [] f = "toolName" -> <<"t", "o", "o", "l", "N", "a", "m", "e">>

ValueText(f, v) == IF f \in FlagFields THEN (IF v THEN <<"t", "r", "u", "e">> ELSE <<"f", "a", "l", "s", "e">>) ELSE v

RECURSIVE SerializeFields(_, _)
SerializeFields(md, fs) ==
  IF fs = <<>> THEN <<>>
  ELSE LET f == Head(fs)
           rest == SerializeFields(md, Tail(fs))
       IN IF md[f] = <<>> THEN rest
          ELSE <<FieldKey(f) \o <<":", " ">> \o ValueText(f, md[f][1])>> \o rest

Serialize(md) ==
  <<"-", "-", "-", "\n">> \o join(SerializeFields(md, FieldOrder), NL) \o <<"\n", "-", "-", "-", "\n", "\n", "B", "o", "d", "y">>

Option(S) == {<<>>} \cup {<<v>> : v \in S}

RoundTripValues == {<<"a">>, <<"a", ":", " ", "b">>, <<" ", "a">>, <<"a", " ">>, <<>>, <<"a", "\n", "b">>, <<"T", "r", "u", "e">>}

InitRoundTrip ==
  /\ pc = "ready"
  /\ NoServer
  /\ fixture \in [description : Option(RoundTripValues),
                  name : Option({<<"n">>}),
                  role : Option({<<"r">>}),
                  toolName : Option({<<"t", "-", "1">>, <<" ">>}),
                  registerAsTool : Option(BOOLEAN),
                  registerAsPrompt : Option(BOOLEAN)]
  /\ rawContent = Serialize(fixture)
  /\ metadata = EmptyMetadata
  /\ content = <<>>
  /\ resourceMap = <<>>
  /\ processedContent = <<>>
  /\ variables = <<>>

SpecRoundTrip == InitRoundTrip /\ [][ParseMetadataCall]_vars

\* C7 as stated: parsing the serialized record gives the record back,
\* whatever its string values are.
C7_RoundTrip == pc = "done" => metadata = fixture

\* A string value that a line can carry: not empty, on one line, with no
\* white space at either end.
PlainValue(v) == v # <<>> /\ trim(v) = v /\ \A i \in 1..Len(v) : v[i] # "\n"

\* C7 amended: parsing the serialized record gives the record back when each
\* string value is non-empty, on one line and without white space at its ends.
C7_RoundTripPlainValues ==
  (pc = "done" /\ \A f \in StringFields : fixture[f] = <<>> \/ PlainValue(fixture[f][1]))
    => metadata = fixture

\* A record with a colon in a string value and both flags, one false.
C7_Witness ==
  /\ pc = "done"
  /\ fixture.description = <<<<"a", ":", " ", "b">>>>
  /\ fixture.toolName = <<<<"t", "-", "1">>>>
  /\ fixture.registerAsTool = <<TRUE>>
  /\ fixture.registerAsPrompt = <<FALSE>>
  /\ metadata = fixture

----------------------------------------------------------------------------
(* VARIABLE_PATTERN = /\{\{([a-zA-Z0-9_]+)\}\}/g and                        *)
(* RESOURCE_REF_PATTERN = /\{\{resource:(.*?)\}\}/g, as matchAll runs them: *)
(* from left to right, each match starting where the one before ended.     *)

\* Length of the run of word characters of s that starts at position i.
WordRun(s, i) ==
  LET stops == {j \in i..Len(s) : s[j] \notin WordChars}
  IN IF i > Len(s) THEN 0
     ELSE IF stops = {} THEN Len(s) - i + 1
     ELSE Min(stops) - i

\* VARIABLE_PATTERN matches at position i: {{, one or more word characters
\* (greedy: the whole run), }}.
VariableMatchAt(s, i) ==
  /\ MatchesAt(s, i, <<"{", "{">>)
  /\ WordRun(s, i + 2) >= 1
  /\ MatchesAt(s, i + 2 + WordRun(s, i + 2), <<"}", "}">>)

\* [...content.matchAll(VARIABLE_PATTERN)] from position from on.
RECURSIVE VariableMatches(_, _)
VariableMatches(s, from) ==
  LET starts == {i \in from..Len(s) : VariableMatchAt(s, i)}
  IN IF starts = {} THEN <<>>
     ELSE LET i == Min(starts)
              n == WordRun(s, i + 2)
          IN <<[index |-> i, group1 |-> SubSeq(s, i + 2, i + 1 + n), length |-> n + 4]>>
               \o VariableMatches(s, i + n + 4)

VARIABLE_PATTERN(s) == VariableMatches(s, 1)

\* The characters "." does not match: the line terminators.
LineTerminators == {"\n", "\r"}

\* The position of the }} that ends a match of RESOURCE_REF_PATTERN starting
\* at position i, 0 if there is no match: (.*?) is lazy and stays on one line.
ResourceRefEnd(s, i) ==
  IF ~MatchesAt(s, i, <<"{", "{", "r", "e", "s", "o", "u", "r", "c", "e", ":">>) THEN 0
  ELSE LET j == FindFrom(s, <<"}", "}">>, i + 11)
       IN IF j = 0 THEN 0
          ELSE IF \E k \in (i + 11)..(j - 1) : s[k] \in LineTerminators THEN 0
          ELSE j

\* [...content.matchAll(RESOURCE_REF_PATTERN)] from position from on.
RECURSIVE ResourceRefMatches(_, _)
ResourceRefMatches(s, from) ==
  LET starts == {i \in from..Len(s) : ResourceRefEnd(s, i) # 0}
  IN IF starts = {} THEN <<>>
     ELSE LET i == Min(starts)
              j == ResourceRefEnd(s, i)
          IN <<[index |-> i, fullMatch |-> SubSeq(s, i, j + 1),
                group1 |-> SubSeq(s, i + 11, j - 1), length |-> j + 2 - i]>>
               \o ResourceRefMatches(s, j + 2)

RESOURCE_REF_PATTERN(s) == ResourceRefMatches(s, 1)

\* A pattern /\{\{(.*?)\}\}/g, which takes any one-line text as a name.
RECURSIVE AnyNameMatches(_, _)
AnyNameMatches(s, from) ==
  LET End(i) == IF ~MatchesAt(s, i, <<"{", "{">>) THEN 0
                ELSE LET j == FindFrom(s, <<"}", "}">>, i + 2)
                     IN IF j = 0 \/ \E k \in (i + 2)..(j - 1) : s[k] \in LineTerminators
                        THEN 0 ELSE j
      starts == {i \in from..Len(s) : End(i) # 0}
  IN IF starts = {} THEN <<>>
     ELSE LET i == Min(starts)
          IN <<[index |-> i, group1 |-> SubSeq(s, i + 2, End(i) - 1),
                length |-> End(i) + 2 - i]>>
               \o AnyNameMatches(s, End(i) + 2)

----------------------------------------------------------------------------
(* extractVariables *)

Range(q) == {q[i] : i \in 1..Len(q)}

\* The loop over the matches: a Set keeps each name once, in insertion order.
RECURSIVE addVariables(_, _)
addVariables(acc, matches) ==
  IF matches = <<>> THEN acc
  ELSE LET variable == Head(matches).group1
       IN addVariables(
            IF ~startsWith(variable, <<"r", "e", "s", "o", "u", "r", "c", "e", ":">>) /\ variable \notin Range(acc)
            THEN Append(acc, variable) ELSE acc,
            Tail(matches))

\* The names pushed to an array, which keeps repetitions.
extractVariablesNoSet(c) ==
  LET ms == VARIABLE_PATTERN(c)
  IN [i \in 1..Len(ms) |-> ms[i].group1]

\* The names of a pattern that takes any text as a name, with no filter.
extractVariablesAnyName(c) ==
  LET ms == AnyNameMatches(c, 1)
      Names[k \in 0..Len(ms)] ==
        IF k = 0 THEN <<>>
        ELSE IF ms[k].group1 \in Range(Names[k - 1]) THEN Names[k - 1]
        ELSE Append(Names[k - 1], ms[k].group1)
  IN Names[Len(ms)]

extractVariables(c) == addVariables(<<>>, VARIABLE_PATTERN(c))

----------------------------------------------------------------------------
(* The call of extractVariables on a text (SpecVars), as loadPrompts and   *)
(* registerPrompt call it on the processed content.                        *)

ExtractVariablesCall ==
  /\ pc = "ready"
  /\ variables' = extractVariables(processedContent)
  /\ pc' = "done"
  /\ UNCHANGED <<fixture, rawContent, metadata, content, resourceMap, processedContent, serverVars>>

concat(parts) == join(parts, <<>>)

VarParts == {<<"{", "{", "a", "}", "}">>, <<"{", "{", "b", "_", "1", "}", "}">>, <<"{", "{", "r", "e", "s", "o", "u", "r", "c", "e", ":">>, <<"p", "/", "q">>, <<"}", "}">>, <<"{", "{">>, <<"{">>, <<" ", "x", "\n">>}

\* The texts of the unit tests and of the specification's examples.
VarExamples ==
  { <<"T", "h", "i", "s", " ", "i", "s", " ", "a", " ", "p", "r", "o", "m", "p", "t", " ", "w", "i", "t", "h", " ", "{", "{", "v", "a", "r", "i", "a", "b", "l", "e", "1", "}", "}", " ", "a", "n", "d", " ", "{", "{", "v", "a", "r", "i", "a", "b", "l", "e", "2", "}", "}", ".">>,
    <<"T", "h", "i", "s", " ", "h", "a", "s", " ", "{", "{", "v", "a", "r", "i", "a", "b", "l", "e", "1", "}", "}", " ", "a", "n", "d", " ", "{", "{", "v", "a", "r", "i", "a", "b", "l", "e", "1", "}", "}", " ", "r", "e", "p", "e", "a", "t", "e", "d", ".">>,
    <<"T", "h", "i", "s", " ", "h", "a", "s", " ", "{", "{", "v", "a", "r", "i", "a", "b", "l", "e", "1", "}", "}", " ", "a", "n", "d", " ", "{", "{", "r", "e", "s", "o", "u", "r", "c", "e", ":", "p", "a", "t", "h", "/", "t", "o", "/", "r", "e", "s", "o", "u", "r", "c", "e", "}", "}", ".">>,
    <<"T", "h", "i", "s", " ", "h", "a", "s", " ", "n", "o", " ", "v", "a", "r", "i", "a", "b", "l", "e", "s", ".">> }

InitVars ==
  /\ pc = "ready"
  /\ NoServer
  /\ fixture = <<>>
  /\ rawContent = <<>>
  /\ metadata = EmptyMetadata
  /\ content = <<>>
  /\ resourceMap = <<>>
  /\ processedContent \in
       {concat(ps) : ps \in SeqsUpTo(VarParts, MaxVarParts)} \cup VarExamples
  /\ variables = <<>>

SpecVars == InitVars /\ [][ExtractVariablesCall]_vars

\* The names that stand as {{name}} in s: the non-empty texts of word
\* characters between a {{ and a }}.
PlaceholderNames(s) ==
  {SubSeq(s, a, b) : <<a, b>> \in
     {<<a, b>> \in (1..Len(s)) \X (1..Len(s)) :
        /\ a <= b
        /\ MatchesAt(s, a - 2, <<"{", "{">>)
        /\ MatchesAt(s, b + 1, <<"}", "}">>)
        /\ \A k \in a..b : s[k] \in WordChars}}

\* The position of the first {{name}} of s.
FirstPlaceholder(s, name) ==
  Min({i \in 1..Len(s) : MatchesAt(s, i, <<"{", "{">> \o name \o <<"}", "}">>)})

\* C8: extractVariables returns each placeholder name of the text once, in
\* the order of the first occurrences, and nothing else (the empty list when
\* the text holds no placeholder).
C8_UniqueInFirstOccurrenceOrder ==
  pc = "done" =>
    /\ Range(variables) = PlaceholderNames(processedContent)
    /\ \A p, q \in 1..Len(variables) :
         p < q => /\ variables[p] # variables[q]
                  /\ FirstPlaceholder(processedContent, variables[p])
                       < FirstPlaceholder(processedContent, variables[q])

\* {{a}}{{a}}{{b_1}}, with a text after it, gives a, b_1.
C8_Witness ==
  /\ pc = "done"
  /\ processedContent = <<"{", "{", "a", "}", "}", "{", "{", "a", "}", "}", "{", "{", "b", "_", "1", "}", "}", " ", "x", "\n">>
  /\ variables = <<<<"a">>, <<"b", "_", "1">>>>

\* s with every character of a {{resource:...}} token replaced by a space.
BlankResourceTokens(s) ==
  LET ts == RESOURCE_REF_PATTERN(s)
  IN [i \in 1..Len(s) |->
        IF \E k \in 1..Len(ts) : ts[k].index <= i /\ i < ts[k].index + ts[k].length
        THEN " " ELSE s[i]]

\* Some text of s lies in two braces twice over: a {{ within a resource path.
PathHoldsBraces(s) ==
  LET ts == RESOURCE_REF_PATTERN(s)
  IN \E k \in 1..Len(ts) : FindFrom(ts[k].group1, <<"{", "{">>, 1) # 0

\* C9 as stated: no returned name is under resource:, and no resource token
\* adds a name, whatever its path: the list is the one of the text with its
\* resource tokens blanked.
C9_NoResourceNames ==
  pc = "done" =>
    /\ \A i \in 1..Len(variables) : ~startsWith(variables[i], <<"r", "e", "s", "o", "u", "r", "c", "e", ":">>)
    /\ variables = extractVariables(BlankResourceTokens(processedContent))

\* C9 amended: no returned name is under resource:, and a resource token
\* whose path holds no {{ adds no name.
C9_NoResourceNamesPlainPaths ==
  pc = "done" =>
    /\ \A i \in 1..Len(variables) : ~startsWith(variables[i], <<"r", "e", "s", "o", "u", "r", "c", "e", ":">>)
    /\ ~PathHoldsBraces(processedContent) =>
         variables = extractVariables(BlankResourceTokens(processedContent))

\* The example of the specification: one variable beside a resource token.
C9_Witness ==
  /\ pc = "done"
  /\ processedContent = <<"T", "h", "i", "s", " ", "h", "a", "s", " ", "{", "{", "v", "a", "r", "i", "a", "b", "l", "e", "1", "}", "}", " ", "a", "n", "d", " ", "{", "{", "r", "e", "s", "o", "u", "r", "c", "e", ":", "p", "a", "t", "h", "/", "t", "o", "/", "r", "e", "s", "o", "u", "r", "c", "e", "}", "}", ".">>
  /\ variables = <<<<"v", "a", "r", "i", "a", "b", "l", "e", "1">>>>

----------------------------------------------------------------------------
(* processPromptContent *)

\* GetSubstitution of String.prototype.replace for a string pattern, which
\* has no captures: in the replacement text $$ stands for $, $& for the
\* matched text, $` for the text before the match and $' for the text after
\* it; any other $ stands for itself.
RECURSIVE GetSubstitution(_, _, _, _)
GetSubstitution(matched, before, after, replacement) ==
  IF replacement = <<>> THEN <<>>
  ELSE IF Head(replacement) = "$" /\ Len(replacement) >= 2
            /\ replacement[2] \in {"$", "&", GraveAccent, "'"}
  THEN (CASE replacement[2] = "$" -> <<"$">>
          [] replacement[2] = "&" -> matched
          [] replacement[2] = GraveAccent -> before
          [] replacement[2] = "'" -> after)
       \o GetSubstitution(matched, before, after, SubSeq(replacement, 3, Len(replacement)))
  ELSE <<Head(replacement)>>
       \o GetSubstitution(matched, before, after, Tail(replacement))

\* String.prototype.replace(pattern, replacement) for a string pattern: the
\* first occurrence only.
replace(s, pattern, replacement) ==
  LET i == FindFrom(s, pattern, 1)
  IN IF i = 0 THEN s
     ELSE LET before == SubSeq(s, 1, i - 1)
              after == SubSeq(s, i + Len(pattern), Len(s))
          IN before \o GetSubstitution(pattern, before, after, replacement) \o after

\* Map.prototype.get: <<>> for undefined, <<v>> for the value v.
mapGet(m, k) == IF k \in DOMAIN m THEN <<m[k]>> ELSE <<>>

\* !resourceContent: undefined, or the empty string.
isFalsy(v) == v = <<>> \/ v[1] = <<>>

resourceUriOf(resourcePath) == <<"f", "i", "l", "e", ":", "/", "/">> \o resourcePath

\* The loop over the resource references found in the original content.
RECURSIVE embedReferences(_, _, _)
embedReferences(processed, refs, m) ==
  IF refs = <<>> THEN processed
  ELSE LET fullMatch == Head(refs).fullMatch
           resourcePath == Head(refs).group1
           resourceContent == mapGet(m, resourceUriOf(resourcePath))
       IN embedReferences(
            IF isFalsy(resourceContent)
            THEN replace(processed, fullMatch,
                         <<"[", "R", "e", "s", "o", "u", "r", "c", "e", " ", "n", "o", "t", " ", "f", "o", "u", "n", "d", ":", " ">> \o resourcePath \o <<"]">>)
            ELSE replace(processed, fullMatch, resourceContent[1]),
            Tail(refs), m)

processPromptContent(c, m) == embedReferences(c, RESOURCE_REF_PATTERN(c), m)

----------------------------------------------------------------------------
(* The call of processPromptContent on a text and a resource map           *)
(* (SpecResolve).  The fixture holds the parts the text is made of.        *)

ProcessPromptContentCall ==
  /\ pc = "ready"
  /\ processedContent' = processPromptContent(content, resourceMap)
  /\ pc' = "done"
  /\ UNCHANGED <<fixture, rawContent, metadata, content, resourceMap, variables, serverVars>>

ResParts ==
  {<<"{", "{", "r", "e", "s", "o", "u", "r", "c", "e", ":", "p", "}", "}">>, <<"{", "{", "r", "e", "s", "o", "u", "r", "c", "e", ":", "q", "/", "r", "}", "}">>, <<"{", "{", "r", "e", "s", "o", "u", "r", "c", "e", ":", "m", "}", "}">>, <<"{", "{", "r", "e", "s", "o", "u", "r", "c", "e", ":", "a", "$", "$", "b", "}", "}">>,
   <<" ", "a", "n", "d", " ">>, <<"{", "{", "a", "}", "}">>}

\* What the resource files p and q/r may hold.
ContentsOfP ==
  {<<"R", "1">>, <<"$", "&">>, <<"a", "$", "$", "b">>, <<"$", "'">>, <<"$", GraveAccent>>, <<>>, <<"x", "{", "{", "r", "e", "s", "o", "u", "r", "c", "e", ":", "p", "}", "}">>, <<"{", "{", "r", "e", "s", "o", "u", "r", "c", "e", ":", "q", "/", "r", "}", "}">>, <<"{", "{", "a", "}", "}">>}

ContentsOfQR == {<<"R", "2">>, <<"{", "{", "r", "e", "s", "o", "u", "r", "c", "e", ":", "p", "}", "}">>}

MapOf(p, qr) ==
  [u \in (IF p = <<>> THEN {} ELSE {resourceUriOf(<<"p">>)})
         \cup (IF qr = <<>> THEN {} ELSE {resourceUriOf(<<"q", "/", "r">>)}) |->
     IF u = resourceUriOf(<<"p">>) THEN p[1] ELSE qr[1]]

\* The inputs of the unit tests.
ResExamples ==
  { <<<<<<"T", "h", "i", "s", " ", "r", "e", "f", "e", "r", "e", "n", "c", "e", "s", " ">>, <<"{", "{", "r", "e", "s", "o", "u", "r", "c", "e", ":", "t", "e", "s", "t", "/", "r", "e", "s", "o", "u", "r", "c", "e", "}", "}">>, <<".">>>>,
      [u \in {resourceUriOf(<<"t", "e", "s", "t", "/", "r", "e", "s", "o", "u", "r", "c", "e">>)} |-> <<"r", "e", "s", "o", "u", "r", "c", "e", " ", "c", "o", "n", "t", "e", "n", "t">>]>>,
    <<<<<<"T", "h", "i", "s", " ", "r", "e", "f", "e", "r", "e", "n", "c", "e", "s", " ">>, <<"{", "{", "r", "e", "s", "o", "u", "r", "c", "e", ":", "m", "i", "s", "s", "i", "n", "g", "/", "r", "e", "s", "o", "u", "r", "c", "e", "}", "}">>, <<".">>>>,
      [u \in {} |-> <<>>]>>,
    <<<<<<"T", "h", "i", "s", " ", "r", "e", "f", "e", "r", "e", "n", "c", "e", "s", " ">>, <<"{", "{", "r", "e", "s", "o", "u", "r", "c", "e", ":", "t", "e", "s", "t", "/", "r", "e", "s", "o", "u", "r", "c", "e", "1", "}", "}">>, <<" ", "a", "n", "d", " ">>,
        <<"{", "{", "r", "e", "s", "o", "u", "r", "c", "e", ":", "t", "e", "s", "t", "/", "r", "e", "s", "o", "u", "r", "c", "e", "2", "}", "}">>, <<".">>>>,
      [u \in {resourceUriOf(<<"t", "e", "s", "t", "/", "r", "e", "s", "o", "u", "r", "c", "e", "1">>), resourceUriOf(<<"t", "e", "s", "t", "/", "r", "e", "s", "o", "u", "r", "c", "e", "2">>)} |->
         IF u = resourceUriOf(<<"t", "e", "s", "t", "/", "r", "e", "s", "o", "u", "r", "c", "e", "1">>) THEN <<"r", "e", "s", "o", "u", "r", "c", "e", " ", "c", "o", "n", "t", "e", "n", "t", " ", "1">>
         ELSE <<"r", "e", "s", "o", "u", "r", "c", "e", " ", "c", "o", "n", "t", "e", "n", "t", " ", "2">>]>> }

ResInputs ==
  {<<ps, MapOf(p, qr)>> : ps \in SeqsUpTo(ResParts, MaxResParts),
                          p \in Option(ContentsOfP), qr \in Option(ContentsOfQR)}
    \cup ResExamples

InitResolve ==
  /\ pc = "ready"
  /\ NoServer
  /\ \E in \in ResInputs :
       /\ fixture = in[1]
       /\ content = concat(in[1])
       /\ resourceMap = in[2]
  /\ rawContent = <<>>
  /\ metadata = EmptyMetadata
  /\ processedContent = <<>>
  /\ variables = <<>>

SpecResolve == InitResolve /\ [][ProcessPromptContentCall]_vars

\* The path of a part that is a resource token, as <<path>>; <<>> otherwise.
TokenPath(part) ==
  IF startsWith(part, <<"{", "{", "r", "e", "s", "o", "u", "r", "c", "e", ":">>) THEN <<SubSeq(part, 12, Len(part) - 2)>>
  ELSE <<>>

IsMapped(part) ==
  TokenPath(part) # <<>> /\ resourceUriOf(TokenPath(part)[1]) \in DOMAIN resourceMap

\* The text with each mapped token replaced by its content, character for
\* character, and every other part kept.
EmbeddedVerbatim ==
  concat([i \in 1..Len(fixture) |->
            IF IsMapped(fixture[i])
            THEN resourceMap[resourceUriOf(TokenPath(fixture[i])[1])]
            ELSE fixture[i]])

\* C10: every token whose path is in the resource map is replaced by the
\* mapped content verbatim, whatever characters the content holds, and the
\* text outside the tokens is unchanged.  Stated for the texts whose tokens
\* are all mapped, to contents that are not empty and hold no token.
C10_EmbeddedVerbatim ==
  (/\ pc = "done"
   /\ \A i \in 1..Len(fixture) : TokenPath(fixture[i]) # <<>> => IsMapped(fixture[i])
   /\ \A u \in DOMAIN resourceMap :
        resourceMap[u] # <<>> /\ FindFrom(resourceMap[u], <<"{", "{">>, 1) = 0)
    => processedContent = EmbeddedVerbatim

\* The example of the claim: it holds.
C10_Example ==
  (/\ pc = "done"
   /\ content = <<"T", "h", "i", "s", " ", "r", "e", "f", "e", "r", "e", "n", "c", "e", "s", " ", "{", "{", "r", "e", "s", "o", "u", "r", "c", "e", ":", "t", "e", "s", "t", "/", "r", "e", "s", "o", "u", "r", "c", "e", "}", "}", ".">>)
    => processedContent = <<"T", "h", "i", "s", " ", "r", "e", "f", "e", "r", "e", "n", "c", "e", "s", " ", "r", "e", "s", "o", "u", "r", "c", "e", " ", "c", "o", "n", "t", "e", "n", "t", ".">>


----------------------------------------------------------------------------
(* Missing resources, empty resources and tokens inside embedded content   *)

AllTokensMapped ==
  \A i \in 1..Len(fixture) : TokenPath(fixture[i]) # <<>> => IsMapped(fixture[i])

NoTokenMapped ==
  \A i \in 1..Len(fixture) : TokenPath(fixture[i]) # <<>> => ~IsMapped(fixture[i])

NotFoundPlaceholder(resourcePath) == <<"[", "R", "e", "s", "o", "u", "r", "c", "e", " ", "n", "o", "t", " ", "f", "o", "u", "n", "d", ":", " ">> \o resourcePath \o <<"]">>

\* The text with each token replaced by the placeholder that names its path,
\* and every other part kept.
MissingReplaced ==
  concat([i \in 1..Len(fixture) |->
            IF TokenPath(fixture[i]) # <<>>
            THEN NotFoundPlaceholder(TokenPath(fixture[i])[1])
            ELSE fixture[i]])

\* C11: a token whose path is absent from the resource map is replaced by a
\* placeholder that contains the literal path, and every remaining token of
\* the text is processed as well.  Stated for the texts none of whose tokens
\* is in the map.
C11_MissingReplacedByPlaceholder ==
  (pc = "done" /\ NoTokenMapped) => processedContent = MissingReplaced

\* The example of the unit test: it holds.
C11_Example ==
  (/\ pc = "done"
   /\ content = <<"T", "h", "i", "s", " ", "r", "e", "f", "e", "r", "e", "n", "c", "e", "s", " ", "{", "{", "r", "e", "s", "o", "u", "r", "c", "e", ":", "m", "i", "s", "s", "i", "n", "g", "/", "r", "e", "s", "o", "u", "r", "c", "e", "}", "}", ".">>)
    => processedContent = <<"T", "h", "i", "s", " ", "r", "e", "f", "e", "r", "e", "n", "c", "e", "s", " ", "[", "R", "e", "s", "o", "u", "r", "c", "e", " ", "n", "o", "t", " ", "f", "o", "u", "n", "d", ":", " ", "m", "i", "s", "s", "i", "n", "g", "/", "r", "e", "s", "o", "u", "r", "c", "e", "]", ".">>

\* C12: the placeholder is emitted only for a path that is not a key of the
\* map; a path in the map is replaced by its content, the empty content
\* included.  Stated for the texts whose tokens are all mapped, to contents
\* that hold neither a dollar sign nor a token.
C12_MappedContentEmbedded ==
  (/\ pc = "done"
   /\ AllTokensMapped
   /\ \A u \in DOMAIN resourceMap :
        FindFrom(resourceMap[u], <<"$">>, 1) = 0 /\ FindFrom(resourceMap[u], <<"{", "{">>, 1) = 0)
    => processedContent = EmbeddedVerbatim

\* C13: substitution is single-pass: every token of the original text is
\* replaced and a token inside embedded content stays as literal text.
\* Stated for the texts whose tokens are all mapped, to contents that are
\* not empty and hold no dollar sign.
C13_SinglePass ==
  (/\ pc = "done"
   /\ AllTokensMapped
   /\ \A u \in DOMAIN resourceMap :
        resourceMap[u] # <<>> /\ FindFrom(resourceMap[u], <<"$">>, 1) = 0)
    => processedContent = EmbeddedVerbatim

----------------------------------------------------------------------------
(* addDojoDocsNudge and addDojoDocReferences *)

includes(s, lit) == FindFrom(s, lit, 1) # 0

\* The emoji that opens each nudge, as one character of the model.
BooksEmoji == "books"

modelKeywords == {<<"m", "o", "d", "e", "l">>, <<"m", "o", "d", "e", "l", "s">>, <<"e", "n", "t", "i", "t", "y">>, <<"e", "n", "t", "i", "t", "i", "e", "s">>, <<"d", "a", "t", "a", " ", "s", "t", "r", "u", "c", "t", "u", "r", "e">>, <<"s", "c", "h", "e", "m", "a">>}

logicKeywords ==
  {<<"s", "y", "s", "t", "e", "m">>, <<"s", "y", "s", "t", "e", "m", "s">>, <<"l", "o", "g", "i", "c">>, <<"g", "a", "m", "e", " ", "l", "o", "g", "i", "c">>, <<"f", "u", "n", "c", "t", "i", "o", "n">>, <<"f", "u", "n", "c", "t", "i", "o", "n", "s">>, <<"c", "o", "n", "t", "r", "a", "c", "t">>}

configKeywords == {<<"c", "o", "n", "f", "i", "g">>, <<"c", "o", "n", "f", "i", "g", "u", "r", "a", "t", "i", "o", "n">>, <<"s", "c", "a", "r", "b">>, <<"t", "o", "m", "l">>, <<"p", "r", "o", "f", "i", "l", "e">>, <<"d", "e", "p", "l", "o", "y", "m", "e", "n", "t">>}

\* keywords.some((keyword) => content.toLowerCase().includes(keyword.toLowerCase()))
someKeyword(c, keywords) ==
  LET lower == toLowerCase(c)
  IN \E keyword \in keywords : includes(lower, toLowerCase(keyword))

ModelNudge ==
  <<"\n", "\n", "Â", BooksEmoji, " ", "*", "*", "V", "e", "r", "i", "f", "y", " ", "y", "o", "u", "r", " ", "m", "o", "d", "e", "l", " ", "c", "o", "d", "e", " ", "a", "g", "a", "i", "n", "s", "t", " ", "t", "h", "e", " ", "[", "D", "o", "j", "o", " ", "M", "o", "d", "e", "l", "s", " ", "d", "o", "c", "u", "m", "e", "n", "t", "a", "t", "i", "o", "n", "]", "(", "h", "t", "t", "p", "s", ":", "/", "/", "w", "w", "w", ".", "d", "o", "j", "o", "e", "n", "g", "i", "n", "e", ".", "o", "r", "g", "/", "f", "r", "a", "m", "e", "w", "o", "r", "k", "/", "m", "o", "d", "e", "l", "s", ")", ".", " ", "M", "a", "k", "e", " ", "s", "u", "r", "e", " ", "t", "o", " ", "i", "m", "p", "l", "e", "m", "e", "n", "t", " ", "p", "r", "o", "p", "e", "r", " ", "t", "r", "a", "i", "t", "s", " ", "a", "n", "d", " ", "f", "o", "l", "l", "o", "w", " ", "e", "n", "t", "i", "t", "y", " ", "r", "e", "l", "a", "t", "i", "o", "n", "s", "h", "i", "p", "s", " ", "b", "e", "s", "t", " ", "p", "r", "a", "c", "t", "i", "c", "e", "s", ".", "*", "*">>

SystemNudge ==
  <<"\n", "\n", "Â", BooksEmoji, " ", "*", "*", "V", "e", "r", "i", "f", "y", " ", "y", "o", "u", "r", " ", "s", "y", "s", "t", "e", "m", " ", "l", "o", "g", "i", "c", " ", "a", "g", "a", "i", "n", "s", "t", " ", "t", "h", "e", " ", "[", "D", "o", "j", "o", " ", "S", "y", "s", "t", "e", "m", "s", " ", "d", "o", "c", "u", "m", "e", "n", "t", "a", "t", "i", "o", "n", "]", "(", "h", "t", "t", "p", "s", ":", "/", "/", "w", "w", "w", ".", "d", "o", "j", "o", "e", "n", "g", "i", "n", "e", ".", "o", "r", "g", "/", "f", "r", "a", "m", "e", "w", "o", "r", "k", "/", "w", "o", "r", "l", "d", "/", "s", "y", "s", "t", "e", "m", "s", ")", ".", " ", "E", "n", "s", "u", "r", "e", " ", "c", "o", "r", "r", "e", "c", "t", " ", "w", "o", "r", "l", "d", " ", "s", "t", "a", "t", "e", " ", "m", "a", "n", "a", "g", "e", "m", "e", "n", "t", " ", "a", "n", "d", " ", "a", "u", "t", "h", "o", "r", "i", "z", "a", "t", "i", "o", "n", " ", "p", "a", "t", "t", "e", "r", "n", "s", ".", "*", "*">>

ConfigNudge ==
  <<"\n", "\n", "Â", BooksEmoji, " ", "*", "*", "V", "e", "r", "i", "f", "y", " ", "y", "o", "u", "r", " ", "c", "o", "n", "f", "i", "g", "u", "r", "a", "t", "i", "o", "n", " ", "a", "g", "a", "i", "n", "s", "t", " ", "t", "h", "e", " ", "[", "D", "o", "j", "o", " ", "C", "o", "n", "f", "i", "g", " ", "d", "o", "c", "u", "m", "e", "n", "t", "a", "t", "i", "o", "n", "]", "(", "h", "t", "t", "p", "s", ":", "/", "/", "w", "w", "w", ".", "d", "o", "j", "o", "e", "n", "g", "i", "n", "e", ".", "o", "r", "g", "/", "f", "r", "a", "m", "e", "w", "o", "r", "k", "/", "c", "o", "n", "f", "i", "g", ")", ".", " ", "C", "h", "e", "c", "k", " ", "f", "o", "r", " ", "p", "r", "o", "p", "e", "r", " ", "S", "c", "a", "r", "b", ".", "t", "o", "m", "l", " ", "s", "e", "t", "u", "p", " ", "a", "n", "d", " ", "p", "r", "o", "f", "i", "l", "e", " ", "c", "o", "n", "f", "i", "g", "u", "r", "a", "t", "i", "o", "n", ".", "*", "*">>

GeneralNudge ==
  <<"\n", "\n", "Â", BooksEmoji, " ", "*", "*", "V", "e", "r", "i", "f", "y", " ", "y", "o", "u", "r", " ", "D", "o", "j", "o", " ", "c", "o", "d", "e", " ", "a", "g", "a", "i", "n", "s", "t", " ", "t", "h", "e", " ", "[", "o", "f", "f", "i", "c", "i", "a", "l", " ", "d", "o", "c", "u", "m", "e", "n", "t", "a", "t", "i", "o", "n", "]", "(", "h", "t", "t", "p", "s", ":", "/", "/", "w", "w", "w", ".", "d", "o", "j", "o", "e", "n", "g", "i", "n", "e", ".", "o", "r", "g", "/", "o", "v", "e", "r", "v", "i", "e", "w", ")", ".", " ", "F", "o", "l", "l", "o", "w", " ", "b", "e", "s", "t", " ", "p", "r", "a", "c", "t", "i", "c", "e", "s", " ", "f", "o", "r", " ", "b", "u", "i", "l", "d", "i", "n", "g", " ", "p", "r", "o", "v", "a", "b", "l", "e", " ", "g", "a", "m", "e", "s", " ", "a", "n", "d", " ", "a", "p", "p", "l", "i", "c", "a", "t", "i", "o", "n", "s", ".", "*", "*">>

\* topic is <<>> for undefined and <<t>> for the string t.
addDojoDocsNudge(c, topic) ==
  LET hasModelKeywords == someKeyword(c, modelKeywords)
      hasLogicKeywords == someKeyword(c, logicKeywords)
      hasConfigKeywords == someKeyword(c, configKeywords)
      byTopic ==
        IF includes(toLowerCase(topic[1]), <<"m", "o", "d", "e", "l">>) THEN ModelNudge
        ELSE IF includes(toLowerCase(topic[1]), <<"l", "o", "g", "i", "c">>)
                \/ includes(toLowerCase(topic[1]), <<"s", "y", "s", "t", "e", "m">>) THEN SystemNudge
        ELSE IF includes(toLowerCase(topic[1]), <<"c", "o", "n", "f", "i", "g">>) THEN ConfigNudge
        ELSE <<>>
      byKeyword ==
        IF hasModelKeywords THEN ModelNudge
        ELSE IF hasLogicKeywords THEN SystemNudge
        ELSE IF hasConfigKeywords THEN ConfigNudge
        ELSE <<>>
      specific == IF ~isFalsy(topic) THEN byTopic ELSE byKeyword
      nudge ==
        IF specific = <<>> /\ (hasModelKeywords \/ hasLogicKeywords \/ hasConfigKeywords)
        THEN GeneralNudge
        ELSE specific
  IN IF nudge # <<>> THEN c \o nudge ELSE c

ModelReferences ==
  <<"\n", "\n", "-", "-", "-", "\n", "*", "*", "R", "e", "f", "e", "r", "e", "n", "c", "e", " ", "D", "o", "c", "u", "m", "e", "n", "t", "a", "t", "i", "o", "n", ":", "*", "*", "\n", "-", " ", "[", "M", "o", "d", "e", "l", "s", " ", "O", "v", "e", "r", "v", "i", "e", "w", "]", "(", "h", "t", "t", "p", "s", ":", "/", "/", "w", "w", "w", ".", "d", "o", "j", "o", "e", "n", "g", "i", "n", "e", ".", "o", "r", "g", "/", "f", "r", "a", "m", "e", "w", "o", "r", "k", "/", "m", "o", "d", "e", "l", "s", ")", "\n", "-", " ", "[", "E", "n", "t", "i", "t", "i", "e", "s", " ", "i", "n", " ", "D", "o", "j", "o", "]", "(", "h", "t", "t", "p", "s", ":", "/", "/", "w", "w", "w", ".", "d", "o", "j", "o", "e", "n", "g", "i", "n", "e", ".", "o", "r", "g", "/", "f", "r", "a", "m", "e", "w", "o", "r", "k", "/", "m", "o", "d", "e", "l", "s", "/", "e", "n", "t", "i", "t", "i", "e", "s", ")", "\n", "-", " ", "[", "M", "o", "d", "e", "l", " ", "I", "n", "t", "r", "o", "s", "p", "e", "c", "t", "i", "o", "n", "]", "(", "h", "t", "t", "p", "s", ":", "/", "/", "w", "w", "w", ".", "d", "o", "j", "o", "e", "n", "g", "i", "n", "e", ".", "o", "r", "g", "/", "f", "r", "a", "m", "e", "w", "o", "r", "k", "/", "m", "o", "d", "e", "l", "s", "/", "i", "n", "t", "r", "o", "s", "p", "e", "c", "t", ")">>

SystemReferences ==
  <<"\n", "\n", "-", "-", "-", "\n", "*", "*", "R", "e", "f", "e", "r", "e", "n", "c", "e", " ", "D", "o", "c", "u", "m", "e", "n", "t", "a", "t", "i", "o", "n", ":", "*", "*", "\n", "-", " ", "[", "S", "y", "s", "t", "e", "m", "s", "]", "(", "h", "t", "t", "p", "s", ":", "/", "/", "w", "w", "w", ".", "d", "o", "j", "o", "e", "n", "g", "i", "n", "e", ".", "o", "r", "g", "/", "f", "r", "a", "m", "e", "w", "o", "r", "k", "/", "w", "o", "r", "l", "d", "/", "s", "y", "s", "t", "e", "m", "s", ")", "\n", "-", " ", "[", "W", "o", "r", "l", "d", " ", "A", "P", "I", "]", "(", "h", "t", "t", "p", "s", ":", "/", "/", "w", "w", "w", ".", "d", "o", "j", "o", "e", "n", "g", "i", "n", "e", ".", "o", "r", "g", "/", "f", "r", "a", "m", "e", "w", "o", "r", "k", "/", "w", "o", "r", "l", "d", "/", "a", "p", "i", ")", "\n", "-", " ", "[", "A", "u", "t", "h", "o", "r", "i", "z", "a", "t", "i", "o", "n", "]", "(", "h", "t", "t", "p", "s", ":", "/", "/", "w", "w", "w", ".", "d", "o", "j", "o", "e", "n", "g", "i", "n", "e", ".", "o", "r", "g", "/", "f", "r", "a", "m", "e", "w", "o", "r", "k", "/", "a", "u", "t", "h", "o", "r", "i", "z", "a", "t", "i", "o", "n", ")">>

ConfigReferences ==
  <<"\n", "\n", "-", "-", "-", "\n", "*", "*", "R", "e", "f", "e", "r", "e", "n", "c", "e", " ", "D", "o", "c", "u", "m", "e", "n", "t", "a", "t", "i", "o", "n", ":", "*", "*", "\n", "-", " ", "[", "C", "o", "n", "f", "i", "g", "u", "r", "a", "t", "i", "o", "n", " ", "G", "u", "i", "d", "e", "]", "(", "h", "t", "t", "p", "s", ":", "/", "/", "w", "w", "w", ".", "d", "o", "j", "o", "e", "n", "g", "i", "n", "e", ".", "o", "r", "g", "/", "f", "r", "a", "m", "e", "w", "o", "r", "k", "/", "c", "o", "n", "f", "i", "g", ")", "\n", "-", " ", "[", "S", "o", "z", "o", " ", "C", "o", "m", "m", "a", "n", "d", "s", "]", "(", "h", "t", "t", "p", "s", ":", "/", "/", "w", "w", "w", ".", "d", "o", "j", "o", "e", "n", "g", "i", "n", "e", ".", "o", "r", "g", "/", "t", "o", "o", "l", "c", "h", "a", "i", "n", "/", "s", "o", "z", "o", ")", "\n", "-", " ", "[", "W", "o", "r", "l", "d", " ", "C", "o", "n", "t", "r", "a", "c", "t", "]", "(", "h", "t", "t", "p", "s", ":", "/", "/", "w", "w", "w", ".", "d", "o", "j", "o", "e", "n", "g", "i", "n", "e", ".", "o", "r", "g", "/", "f", "r", "a", "m", "e", "w", "o", "r", "k", "/", "w", "o", "r", "l", "d", ")">>

GeneralReferences ==
  <<"\n", "\n", "-", "-", "-", "\n", "*", "*", "R", "e", "f", "e", "r", "e", "n", "c", "e", " ", "D", "o", "c", "u", "m", "e", "n", "t", "a", "t", "i", "o", "n", ":", "*", "*", "\n", "-", " ", "[", "D", "o", "j", "o", " ", "D", "o", "c", "u", "m", "e", "n", "t", "a", "t", "i", "o", "n", "]", "(", "h", "t", "t", "p", "s", ":", "/", "/", "w", "w", "w", ".", "d", "o", "j", "o", "e", "n", "g", "i", "n", "e", ".", "o", "r", "g", "/", "o", "v", "e", "r", "v", "i", "e", "w", ")">>

addDojoDocReferences(c) ==
  LET hasModelContent ==
        \/ includes(c, <<"#", "[", "d", "o", "j", "o", ":", ":", "m", "o", "d", "e", "l", "]">>)
        \/ includes(c, <<"#", "[", "k", "e", "y", "]">>)
        \/ includes(c, <<"d", "e", "r", "i", "v", "e", "(", "M", "o", "d", "e", "l">>)
        \/ includes(c, <<"d", "e", "r", "i", "v", "e", "(", "D", "r", "o", "p", ",", " ", "S", "e", "r", "d", "e", ")">>)
      hasSystemContent ==
        \/ includes(c, <<"#", "[", "d", "o", "j", "o", ":", ":", "c", "o", "n", "t", "r", "a", "c", "t", "]">>)
        \/ includes(c, <<"w", "o", "r", "l", "d", ".", "r", "e", "a", "d", "_", "m", "o", "d", "e", "l">>)
        \/ includes(c, <<"w", "o", "r", "l", "d", ".", "w", "r", "i", "t", "e", "_", "m", "o", "d", "e", "l">>)
        \/ includes(c, <<"s", "e", "l", "f", ".", "w", "o", "r", "l", "d", "(">>)
      hasConfigContent ==
        \/ includes(c, <<"S", "c", "a", "r", "b", ".", "t", "o", "m", "l">>)
        \/ includes(c, <<"d", "o", "j", "o", "_">>)
        \/ includes(c, <<"[", "w", "r", "i", "t", "e", "r", "s", "]">>)
        \/ includes(c, <<"[", "t", "a", "r", "g", "e", "t", ".", "s", "t", "a", "r", "k", "n", "e", "t", "-", "c", "o", "n", "t", "r", "a", "c", "t", "]">>)
  IN IF includes(c, <<"d", "o", "j", "o", "e", "n", "g", "i", "n", "e", ".", "o", "r", "g", "/", "f", "r", "a", "m", "e", "w", "o", "r", "k">>) \/ includes(c, <<"d", "o", "j", "o", "e", "n", "g", "i", "n", "e", ".", "o", "r", "g", "/", "t", "o", "o", "l", "c", "h", "a", "i", "n">>)
     THEN c
     ELSE IF hasModelContent THEN c \o ModelReferences
     ELSE IF hasSystemContent THEN c \o SystemReferences
     ELSE IF hasConfigContent THEN c \o ConfigReferences
     ELSE IF includes(c, <<"f", "n", " ">>) /\ includes(c, <<"s", "t", "r", "u", "c", "t", " ">>) /\ includes(c, <<"i", "m", "p", "l", " ">>)
     THEN c \o GeneralReferences
     ELSE c

----------------------------------------------------------------------------
(* The tool handler that registerPrompt creates *)

\* String.prototype.replace(pattern, replacement) for the global regular
\* expression /\{\{<variable>\}\}/g, whose matches are the occurrences of
\* the token text, left to right and not overlapping; the replacement text
\* is expanded for each match against the original string.
RECURSIVE replaceAllFrom(_, _, _, _)
replaceAllFrom(s, token, replacement, from) ==
  LET i == FindFrom(s, token, from)
  IN IF i = 0 THEN SubSeq(s, from, Len(s))
     ELSE SubSeq(s, from, i - 1)
          \o GetSubstitution(token, SubSeq(s, 1, i - 1),
                             SubSeq(s, i + Len(token), Len(s)), replacement)
          \o replaceAllFrom(s, token, replacement, i + Len(token))

variableToken(variable) == <<"{", "{">> \o variable \o <<"}", "}">>

\* inputs[name] || '': inputs is a function from names to strings.
inputOr(inputs, name) ==
  IF isFalsy(mapGet(inputs, name)) THEN <<>> ELSE inputs[name]

\* for (const variable of variables) finalContent = finalContent.replace(pattern, value)
\* A handler that leaves every variable token in place.
replaceVariablesNowhere(finalContent, vs, inputs) == finalContent

RECURSIVE replaceVariables(_, _, _)
replaceVariables(finalContent, vs, inputs) ==
  IF vs = <<>> THEN finalContent
  ELSE replaceVariables(
         replaceAllFrom(finalContent, variableToken(Head(vs)), inputOr(inputs, Head(vs)), 1),
         Tail(vs), inputs)

toolHandler(processed, vs, toolName, inputs) ==
  LET replaced == replaceVariables(processed, vs, inputs)
      input == inputOr(inputs, <<"i", "n", "p", "u", "t">>)
      appended ==
        IF input # <<>> /\ <<"i", "n", "p", "u", "t">> \notin Range(vs)
        THEN replaced \o <<"\n", "\n">> \o input
        ELSE replaced
      isDojo == includes(toLowerCase(toolName), <<"d", "o", "j", "o">>)
      topic == IF isDojo THEN <<replace(toolName, <<"d", "o", "j", "o", "_">>, <<>>)>> ELSE <<>>
      inputContext == input
      referenced == IF isDojo THEN addDojoDocReferences(appended) ELSE appended
  IN addDojoDocsNudge(referenced \o inputContext, topic)

----------------------------------------------------------------------------
(* The call of a tool handler on a mapping of inputs (SpecTool).  The      *)
(* fixture holds the parts of the resolved body the tool was built from.   *)

ToolHandlerCall ==
  /\ pc = "ready"
  /\ reply' = <<toolHandler(processedContent, variables, request.toolName, request.inputs)>>
  /\ pc' = "done"
  /\ UNCHANGED <<fixture, rawContent, metadata, content, resourceMap,
                 processedContent, variables, server, files, log, request, exitCode>>

ToolParts == {<<"{", "{", "a", "}", "}">>, <<"{", "{", "b", "}", "}">>, <<"{", "{", "i", "n", "p", "u", "t", "}", "}">>, <<"x", " ", "=", " ">>, <<" ", "m", "o", "d", "e", "l">>}

ToolNames == {<<"c", "a", "l", "c">>, <<"d", "o", "j", "o", "_", "m", "o", "d", "e", "l">>, <<"D", "o", "j", "o">>}

InputNames == {<<"a">>, <<"b">>, <<"i", "n", "p", "u", "t">>}

InputValues == {<<"5">>, <<>>, <<"$", "&">>, <<"{", "{", "a", "}", "}">>}

ToolInputs == UNION {[S -> InputValues] : S \in SUBSET InputNames}

InitTool ==
  /\ pc = "ready"
  /\ fixture \in SeqsUpTo(ToolParts, MaxToolParts)
  /\ processedContent = concat(fixture)
  /\ variables = extractVariables(processedContent)
  /\ request \in [toolName : ToolNames, inputs : ToolInputs]
  /\ rawContent = <<>>
  /\ metadata = EmptyMetadata
  /\ content = <<>>
  /\ resourceMap = <<>>
  /\ server = <<>>
  /\ files = <<>>
  /\ log = <<>>
  /\ reply = <<>>
  /\ exitCode = <<>>

SpecTool == InitTool /\ [][ToolHandlerCall]_vars

\* C20: invoking a tool replaces every occurrence of every variable token of
\* the resolved body with the value supplied for its name, or with the empty
\* string, so the returned text holds no token of an extracted variable.
\* Stated for the inputs none of whose values holds an opening brace pair.
C20_NoVariableTokenLeft ==
  (/\ pc = "done"
   /\ \A name \in DOMAIN request.inputs : ~includes(request.inputs[name], <<"{", "{">>))
    => \A v \in Range(variables) : ~includes(reply[1], variableToken(v))

\* The example of the specification, x = 5 from the body x = {{a}}: it holds.
C20_Example ==
  (/\ pc = "done"
   /\ processedContent = <<"x", " ", "=", " ", "{", "{", "a", "}", "}">>
   /\ request.toolName = <<"c", "a", "l", "c">>
   /\ request.inputs = [name \in {<<"a">>} |-> <<"5">>])
    => reply = <<<<"x", " ", "=", " ", "5">>>>

----------------------------------------------------------------------------
(* The file system the server starts on *)

endsWith(s, suffix) ==
  Len(s) >= Len(suffix) /\ SubSeq(s, Len(s) - Len(suffix) + 1, Len(s)) = suffix

\* relPath.replace(/\.[^/.]+$/, ''): the last dot and what follows it, when
\* at least one character follows and none of them is a slash.
removeExtension(relPath) ==
  LET dots == {i \in 1..Len(relPath) : relPath[i] = "."}
  IN IF dots # {} /\ Max(dots) < Len(relPath)
        /\ \A i \in Max(dots) + 1..Len(relPath) : relPath[i] # "/"
     THEN SubSeq(relPath, 1, Max(dots) - 1)
     ELSE relPath

\* path.basename(file, ext) of a name that holds no separator.
basename(file, ext) ==
  IF endsWith(file, ext) /\ file # ext
  THEN SubSeq(file, 1, Len(file) - Len(ext))
  ELSE file

\* resourcePath.replace(/\//g, '-')
replaceSlashes(resourcePath) ==
  [i \in 1..Len(resourcePath) |-> IF resourcePath[i] = "/" THEN "-" ELSE resourcePath[i]]

\* An entry of a directory: the name fs.readdir returns, what fs.stat says
\* of it ("file", "directory", or "error" when stat throws: a dangling link,
\* an entry removed since readdir), what fs.readFile returns (<<text>>, or
\* <<>> when it throws) and, for a directory, the entries below it.
Entry(name, stat, read, nested) ==
  [name |-> name, stat |-> stat, read |-> read, nested |-> nested]

ResourceEntries ==
  { Entry(<<"p", ".", "t", "x", "t">>, "file", <<<<"R", "1">>>>, <<>>),
    Entry(<<"d", "o", "c", "s">>, "directory", <<>>, <<Entry(<<"i", "n", "t", "r", "o", ".", "t", "x", "t">>, "file", <<<<"I">>>>, <<>>)>>),
    Entry(<<"d", ".", "t", "x", "t">>, "directory", <<>>, <<>>),
    Entry(<<"n", "o", "t", "e", "s", ".", "m", "d">>, "file", <<<<"N">>>>, <<>>),
    Entry(<<"g", "o", "n", "e", ".", "t", "x", "t">>, "error", <<>>, <<>>),
    Entry(<<"l", "o", "c", "k", "e", "d", ".", "t", "x", "t">>, "file", <<>>, <<>>) }

\* The template files.  Names are unique within the directory, and so are
\* the names the tools are exposed under: the behaviour on a collision of
\* names is left undefined.
SenseiFile ==
  Entry(<<"s", "e", "n", "s", "e", "i", ".", "t", "x", "t">>, "file",
        <<<<"-", "-", "-", "\n", "d", "e", "s", "c", "r", "i", "p", "t", "i", "o", "n", ":", " ", "M", "a", "i", "n", "\n", "r", "e", "g", "i", "s", "t", "e", "r", "_", "a", "s", "_", "t", "o", "o", "l", ":", " ", "t", "r", "u", "e", "\n", "t", "o", "o", "l", "_", "n", "a", "m", "e", ":", " ", "d", "o", "j", "o", "_", "s", "e", "n", "s", "e", "i", "\n", "-", "-", "-", "\n", "U", "s", "e", " ", "{", "{", "r", "e", "s", "o", "u", "r", "c", "e", ":", "p", "}", "}", " ", "f", "o", "r", " ", "{", "{", "t", "o", "p", "i", "c", "}", "}">>>>,
        <<>>)

CalcFile ==
  Entry(<<"c", "a", "l", "c", ".", "t", "x", "t">>, "file", <<<<"-", "-", "-", "\n", "r", "e", "g", "i", "s", "t", "e", "r", "A", "s", "T", "o", "o", "l", ":", " ", "T", "r", "u", "e", "\n", "-", "-", "-", "\n", "x", " ", "=", " ", "{", "{", "x", "}", "}">>>>, <<>>)

PlainFile ==
  Entry(<<"p", "l", "a", "i", "n", ".", "t", "x", "t">>, "file",
        <<<<"-", "-", "-", "\n", "n", "a", "m", "e", ":", " ", "o", "t", "h", "e", "r", "\n", "r", "e", "g", "i", "s", "t", "e", "r", "_", "a", "s", "_", "p", "r", "o", "m", "p", "t", ":", " ", "f", "a", "l", "s", "e", "\n", "r", "e", "g", "i", "s", "t", "e", "r", "_", "a", "s", "_", "t", "o", "o", "l", ":", " ", "f", "a", "l", "s", "e", "\n", "-", "-", "-", "\n", "S", "e", "e", " ", "{", "{", "r", "e", "s", "o", "u", "r", "c", "e", ":", "d", "o", "c", "s", "/", "i", "n", "t", "r", "o", "}", "}">>>>,
        <<>>)

PromptEntries ==
  { SenseiFile, CalcFile, PlainFile,
    Entry(<<"s", "u", "b">>, "directory", <<>>, <<Entry(<<"d", "e", "e", "p", ".", "t", "x", "t">>, "file", <<<<"D">>>>, <<>>)>>),
    Entry(<<"n", "o", "t", "e", "s", ".", "m", "d">>, "file", <<<<"N">>>>, <<>>),
    Entry(<<"g", "o", "n", "e", ".", "t", "x", "t">>, "error", <<>>, <<>>),
    Entry(<<"l", "o", "c", "k", "e", "d", ".", "t", "x", "t">>, "file", <<>>, <<>>) }

\* What fs.readdir may return: each name once, in any order.
Listings(entries, n) ==
  {q \in SeqsUpTo(entries, n) :
     \A i, j \in 1..Len(q) : i # j => q[i].name # q[j].name}

\* A directory is <<listing>>, or <<>> when fs.mkdir or fs.readdir throws.
FewResourceDirs ==
  { <<>>,
    <<<<Entry(<<"p", ".", "t", "x", "t">>, "file", <<<<"R", "1">>>>, <<>>)>>>>,
    <<<<Entry(<<"d", "o", "c", "s">>, "directory", <<>>, <<Entry(<<"i", "n", "t", "r", "o", ".", "t", "x", "t">>, "file", <<<<"I">>>>, <<>>)>>),
        Entry(<<"p", ".", "t", "x", "t">>, "file", <<<<"R", "1">>>>, <<>>)>>>> }

FewPromptDirs == {<<>>, <<<<SenseiFile>>>>, <<<<CalcFile, PlainFile>>>>}

FileSystems ==
  [resources : Option(Listings(ResourceEntries, MaxResourceEntries)),
   prompts : FewPromptDirs]
    \cup
  [resources : FewResourceDirs,
   prompts : Option(Listings(PromptEntries, MaxPromptEntries))]

----------------------------------------------------------------------------
(* Logger: the level, the lines emitted, and the spans that are open       *)

LEVELS == [TRACE |-> 0, DEBUG |-> 1, INFO |-> 2, WARN |-> 3, ERROR |-> 4]

\* The keys of LEVELS as texts.
LevelKey == [TRACE |-> <<"T", "R", "A", "C", "E">>, DEBUG |-> <<"D", "E", "B", "U", "G">>, INFO |-> <<"I", "N", "F", "O">>, WARN |-> <<"W", "A", "R", "N">>, ERROR |-> <<"E", "R", "R", "O", "R">>]

\* currentLevel: 2
DefaultLevel == 2

EmptyLog == [currentLevel |-> DefaultLevel, lines |-> <<>>, spans |-> {}]

setLevel(l, level) == [l EXCEPT !.currentLevel = level]

\* trace, debug, info, warn and error: the line is emitted if
\* this.currentLevel <= this.LEVELS[level].
logLine(l, level, message, subject) ==
  IF l.currentLevel <= LEVELS[level]
  THEN [l EXCEPT !.lines = Append(@, [level |-> level, message |-> message, subject |-> subject])]
  ELSE l

spanStart(l, name, subject) ==
  logLine([l EXCEPT !.spans = @ \cup {<<name, subject>>}], "DEBUG", "Started span", name)

\* end() of a span that is no longer in the map does nothing.
spanEnd(l, name, subject) ==
  IF <<name, subject>> \in l.spans
  THEN logLine([l EXCEPT !.spans = @ \ {<<name, subject>>}], "DEBUG", "Ended span", name)
  ELSE l

\* A lookup of the name as it is written, without toUpperCase.
levelLookupExact(logLevel) ==
  IF \E k \in DOMAIN LEVELS : LevelKey[k] = logLevel
  THEN <<LEVELS[CHOOSE k \in DOMAIN LEVELS : LevelKey[k] = logLevel]>>
  ELSE <<>>

\* Logger.LEVELS[logLevel.toUpperCase()]: <<>> for undefined.
levelLookup(logLevel) ==
  LET upper == toUpperCase(logLevel)
  IN IF \E k \in DOMAIN LEVELS : LevelKey[k] = upper
     THEN <<LEVELS[CHOOSE k \in DOMAIN LEVELS : LevelKey[k] = upper]>>
     ELSE <<>>

\* env is <<>> when LOG_LEVEL is not set and <<text>> when it is.
initLogger(l, env) ==
  IF ~isFalsy(env) /\ levelLookup(env[1]) # <<>>
  THEN logLine(setLevel(l, levelLookup(env[1])[1]), "INFO",
               "Set log level from environment", toUpperCase(env[1]))
  ELSE l

----------------------------------------------------------------------------
(* McpServer: what has been registered with it *)

mapSet(m, k, v) == (k :> v) @@ m

\* A server that is connected from its construction.
NewServerConnected(instructions) ==
  [instructions |-> instructions, resources |-> <<>>, templates |-> {},
   prompts |-> <<>>, tools |-> <<>>, connected |-> TRUE]

NewServer(instructions) ==
  [instructions |-> instructions, resources |-> <<>>, templates |-> {},
   prompts |-> <<>>, tools |-> <<>>, connected |-> FALSE]

\* A tool name that leaves the override out.
toolNameIgnoringOverride(md, promptName) == promptName

\* metadata.description and metadata.toolName are <<>> or <<text>>, the
\* text never empty; metadata.registerAsTool is <<>>, <<TRUE>> or <<FALSE>>.
toolNameOf(md, promptName) ==
  IF ~isFalsy(md.toolName) THEN md.toolName[1] ELSE promptName

descriptionOf(md) == IF ~isFalsy(md.description) THEN md.description ELSE <<>>

\* if (metadata.registerAsTool)
registersTool(md) == md.registerAsTool = <<TRUE>>

\* A registration that honours the register_as_prompt field.
registersPromptWhenAsked(md) == md.registerAsPrompt # <<FALSE>>

\* The prompt is registered whatever the metadata holds.
registersPrompt(md) == TRUE

registerPrompt(srv, promptName, processed, md) ==
  LET withPrompt ==
        IF registersPrompt(md)
        THEN [srv EXCEPT !.prompts =
                mapSet(@, promptName,
                       [description |-> descriptionOf(md), text |-> processed])]
        ELSE srv
      toolName == toolNameOf(md, promptName)
      vs == extractVariables(processed)
  IN IF registersTool(md)
     THEN [withPrompt EXCEPT !.tools =
             mapSet(@, toolName,
                    [description |-> descriptionOf(md), schema |-> Range(vs),
                     processed |-> processed, variables |-> vs])]
     ELSE withPrompt

----------------------------------------------------------------------------
(* startServer: instructions, loadResources, loadPrompts, connect; then    *)
(* the requests the connected server answers (Spec).  The fixture is the   *)
(* file system: the resources directory and the prompts directory.         *)

\* The body of PROMPTS_DIR/sensei.txt as <<text>>, or <<>> when it cannot
\* be read.
senseiInstructions(fs) ==
  LET found ==
        IF fs.prompts = <<>> THEN {}
        ELSE {e \in Range(fs.prompts[1]) :
                e.name = <<"s", "e", "n", "s", "e", "i", ".", "t", "x", "t">> /\ e.stat = "file" /\ e.read # <<>>}
  IN IF found = {} THEN <<>>
     ELSE <<parseMetadata((CHOOSE e \in found : TRUE).read[1]).content>>

\* The setting of LOG_LEVEL the server is started under: not set.
LogLevelSetting == <<>>

\* main up to the call of startServer: the span, and the log level taken
\* from the environment.
Main ==
  /\ pc = "main"
  /\ log' = initLogger(spanStart(log, "main", <<>>), LogLevelSetting)
  /\ pc' = "startServer"
  /\ UNCHANGED <<fixture, rawContent, metadata, content, resourceMap,
                 processedContent, variables, server, files, request, reply, exitCode>>

StartServer ==
  /\ pc = "startServer"
  /\ LET instructions == senseiInstructions(fixture)
         started == spanStart(log, "startServer", <<>>)
     IN /\ server' = NewServer(IF instructions = <<>> THEN <<>> ELSE instructions[1])
        /\ log' = IF instructions = <<>>
                  THEN logLine(started, "WARN",
                               "Failed to load sensei prompt for server instructions",
                               <<"s", "e", "n", "s", "e", "i", ".", "t", "x", "t">>)
                  ELSE started
  /\ pc' = "loadResources"
  /\ UNCHANGED <<fixture, rawContent, metadata, content, resourceMap,
                 processedContent, variables, files, request, reply, exitCode>>

\* A test of the name that accepts every name.
isAnyName(file) == TRUE

\* if (!file.endsWith('.txt')) continue
isTxt(file) == endsWith(file, <<".", "t", "x", "t">>)

\* A catch that throws the error again: startServer fails.
afterScanErrorRethrown(nextPhase) == "exit"

\* Where startServer goes on after the catch of a scan: the scan returns
\* normally, so the next phase runs.
afterScanError(nextPhase) == nextPhase

\* The catch at the end of loadResources and of loadPrompts.
scanError(l, scan, message) ==
  spanEnd(logLine(l, "ERROR", message, <<>>), scan, <<>>)

\* loadFile failing inside the try of a file: both catches log.
fileError(l, fileSpan, file, message) ==
  spanEnd(logLine(logLine(l, "ERROR", "Failed to load file", file),
                  "ERROR", message, file),
          fileSpan, file)

LoadResources ==
  /\ pc = "loadResources"
  /\ resourceMap' = <<>>
  /\ IF fixture.resources = <<>>
     THEN /\ log' = scanError(spanStart(log, "loadResources", <<>>), "loadResources",
                              "Failed to load resources directory")
          /\ files' = <<>>
          /\ pc' = afterScanError("loadPrompts")
     ELSE /\ log' = spanStart(log, "loadResources", <<>>)
          /\ files' = fixture.resources[1]
          /\ pc' = "processResourceFile"
  /\ UNCHANGED <<fixture, rawContent, metadata, content, processedContent,
                 variables, server, request, reply, exitCode>>

resourcePathOf(file) == removeExtension(file)

resourceNameOf(resourcePath) == <<"r", "e", "s", "o", "u", "r", "c", "e", "-">> \o replaceSlashes(resourcePath)

\* One turn of the loop of loadResources.
ProcessResourceFile ==
  /\ pc = "processResourceFile"
  /\ files # <<>>
  /\ LET file == Head(files)
         opened == spanStart(log, "processResourceFile", file.name)
         resourceUri == resourceUriOf(resourcePathOf(file.name))
     IN IF ~isTxt(file.name)
        THEN /\ log' = spanEnd(opened, "processResourceFile", file.name)
             /\ files' = Tail(files)
             /\ pc' = pc
             /\ UNCHANGED <<resourceMap, server>>
        ELSE IF file.stat = "error"
        THEN \* fs.stat is awaited outside the try of the file
             /\ log' = scanError(opened, "loadResources",
                                 "Failed to load resources directory")
             /\ files' = <<>>
             /\ pc' = afterScanError("loadPrompts")
             /\ UNCHANGED <<resourceMap, server>>
        ELSE IF file.stat = "directory"
        THEN /\ log' = spanEnd(opened, "processResourceFile", file.name)
             /\ files' = Tail(files)
             /\ pc' = pc
             /\ UNCHANGED <<resourceMap, server>>
        ELSE IF file.read = <<>>
        THEN /\ log' = fileError(opened, "processResourceFile", file.name,
                                 "Failed to process resource file")
             /\ files' = Tail(files)
             /\ pc' = pc
             /\ UNCHANGED <<resourceMap, server>>
        ELSE /\ resourceMap' = mapSet(resourceMap, resourceUri, file.read[1])
             /\ server' = [server EXCEPT !.resources =
                             mapSet(@, resourceUri,
                                    [name |-> resourceNameOf(resourcePathOf(file.name)),
                                     text |-> file.read[1]])]
             /\ log' = spanEnd(opened, "processResourceFile", file.name)
             /\ files' = Tail(files)
             /\ pc' = pc
  /\ UNCHANGED <<fixture, rawContent, metadata, content, processedContent,
                 variables, request, reply, exitCode>>

\* After the loop: the template file://{path} is registered and the map
\* returned.
FinishLoadResources ==
  /\ pc = "processResourceFile"
  /\ files = <<>>
  /\ server' = [server EXCEPT !.templates = @ \cup {"file-resource"}]
  /\ log' = spanEnd(log, "loadResources", <<>>)
  /\ pc' = "loadPrompts"
  /\ UNCHANGED <<fixture, rawContent, metadata, content, resourceMap,
                 processedContent, variables, files, request, reply, exitCode>>

LoadPrompts ==
  /\ pc = "loadPrompts"
  /\ IF fixture.prompts = <<>>
     THEN /\ log' = scanError(spanStart(log, "loadPrompts", <<>>), "loadPrompts",
                              "Failed to load prompts directory")
          /\ files' = <<>>
          /\ pc' = afterScanError("connect")
     ELSE /\ log' = spanStart(log, "loadPrompts", <<>>)
          /\ files' = fixture.prompts[1]
          /\ pc' = "processPromptFile"
  /\ UNCHANGED <<fixture, rawContent, metadata, content, resourceMap,
                 processedContent, variables, server, request, reply, exitCode>>

\* One turn of the loop of loadPrompts.
ProcessPromptFile ==
  /\ pc = "processPromptFile"
  /\ files # <<>>
  /\ LET file == Head(files)
         opened == spanStart(log, "processPromptFile", file.name)
         promptName == basename(file.name, <<".", "t", "x", "t">>)
     IN IF ~isTxt(file.name)
        THEN /\ log' = spanEnd(opened, "processPromptFile", file.name)
             /\ files' = Tail(files)
             /\ pc' = pc
             /\ UNCHANGED <<rawContent, metadata, content, processedContent,
                            variables, server>>
        ELSE IF file.stat = "error"
        THEN \* fs.stat is awaited outside the try of the file
             /\ log' = scanError(opened, "loadPrompts", "Failed to load prompts directory")
             /\ files' = <<>>
             /\ pc' = afterScanError("connect")
             /\ UNCHANGED <<rawContent, metadata, content, processedContent,
                            variables, server>>
        ELSE IF file.stat = "directory"
        THEN /\ log' = spanEnd(opened, "processPromptFile", file.name)
             /\ files' = Tail(files)
             /\ pc' = pc
             /\ UNCHANGED <<rawContent, metadata, content, processedContent,
                            variables, server>>
        ELSE IF file.read = <<>>
        THEN /\ log' = fileError(opened, "processPromptFile", file.name,
                                 "Failed to process prompt file")
             /\ files' = Tail(files)
             /\ pc' = pc
             /\ UNCHANGED <<rawContent, metadata, content, processedContent,
                            variables, server>>
        ELSE LET parsed == parseMetadata(file.read[1])
                 processed == processPromptContent(parsed.content, resourceMap)
             IN /\ rawContent' = file.read[1]
                /\ metadata' = parsed.metadata
                /\ content' = parsed.content
                /\ processedContent' = processed
                /\ server' = registerPrompt(server, promptName, processed, parsed.metadata)
                /\ variables' = extractVariables(processed)
                /\ log' = spanEnd(opened, "processPromptFile", file.name)
                /\ files' = Tail(files)
                /\ pc' = pc
  /\ UNCHANGED <<fixture, resourceMap, request, reply, exitCode>>

FinishLoadPrompts ==
  /\ pc = "processPromptFile"
  /\ files = <<>>
  /\ log' = spanEnd(log, "loadPrompts", <<>>)
  /\ pc' = "connect"
  /\ UNCHANGED <<fixture, rawContent, metadata, content, resourceMap,
                 processedContent, variables, server, files, request, reply, exitCode>>

\* An exit that reports success whatever status it is given.
processExitSuccess(code) == <<0>>

\* process.exit(code): the status the process ends with
processExit(code) == <<code>>

\* await server.connect(transport): the transport starts and main ends its
\* span, or connect throws: startServer logs and throws in its turn, and
\* the catch of main logs and ends the process.
Connect ==
  /\ pc = "connect"
  /\ \/ /\ server' = [server EXCEPT !.connected = TRUE]
        /\ log' = spanEnd(spanEnd(log, "startServer", <<>>), "main", <<>>)
        /\ pc' = "serving"
        /\ exitCode' = exitCode
     \/ /\ server' = server
        /\ log' = spanEnd(
                    logLine(
                      spanEnd(logLine(log, "ERROR", "Failed to start server", <<>>),
                              "startServer", <<>>),
                      "ERROR", "Fatal error in main", <<>>),
                    "main", <<>>)
        /\ pc' = "exit"
        /\ exitCode' = processExit(1)
  /\ UNCHANGED <<fixture, rawContent, metadata, content, resourceMap,
                 processedContent, variables, files, request, reply>>

\* prompts/get: the prompt handler returns the processed content.
GetPrompt ==
  /\ pc = "serving"
  /\ \E name \in DOMAIN server.prompts :
       /\ request' = [method |-> "prompts/get", toolName |-> name, inputs |-> <<>>]
       /\ reply' = <<server.prompts[name].text>>
  /\ UNCHANGED <<pc, fixture, rawContent, metadata, content, resourceMap,
                 processedContent, variables, server, files, log, exitCode>>

CallInputs ==
  { <<>>, [n \in {<<"x">>} |-> <<"5">>], [n \in {<<"t", "o", "p", "i", "c">>} |-> <<"m", "o", "d", "e", "l", "s">>],
    [n \in {<<"i", "n", "p", "u", "t">>} |-> <<"m", "o", "r", "e">>] }

\* A call that removes the tool it has run from the registry.
CallToolOnce ==
  /\ pc = "serving"
  /\ \E name \in DOMAIN server.tools, inputs \in CallInputs :
       /\ request' = [method |-> "tools/call", toolName |-> name, inputs |-> inputs]
       /\ reply' = <<toolHandler(server.tools[name].processed,
                                 server.tools[name].variables, name, inputs)>>
       /\ log' = log
       /\ server' = [server EXCEPT !.tools = [n \in DOMAIN @ \ {name} |-> @[n]]]
  /\ UNCHANGED <<pc, fixture, rawContent, metadata, content, resourceMap,
                 processedContent, variables, files, exitCode>>

\* tools/call: the tool handler, whose span is opened and ended within it.
CallTool ==
  /\ pc = "serving"
  /\ \E name \in DOMAIN server.tools, inputs \in CallInputs :
       /\ request' = [method |-> "tools/call", toolName |-> name, inputs |-> inputs]
       /\ reply' = <<toolHandler(server.tools[name].processed,
                                 server.tools[name].variables, name, inputs)>>
       /\ log' = spanEnd(spanStart(log, "toolExecution", name), "toolExecution", name)
  /\ UNCHANGED <<pc, fixture, rawContent, metadata, content, resourceMap,
                 processedContent, variables, server, files, exitCode>>

\* path.normalize on the segments of a path below the directory that holds
\* resources and prompts: empty segments and . are dropped and .. removes
\* the segment before it.
RECURSIVE normalizeSegments(_, _)
normalizeSegments(done, rest) ==
  IF rest = <<>> THEN done
  ELSE IF Head(rest) = <<>> \/ Head(rest) = <<".">> THEN normalizeSegments(done, Tail(rest))
  ELSE IF Head(rest) = <<".", ".">> /\ done # <<>> /\ done[Len(done)] # <<".", ".">>
  THEN normalizeSegments(SubSeq(done, 1, Len(done) - 1), Tail(rest))
  ELSE normalizeSegments(Append(done, Head(rest)), Tail(rest))

\* path.join(dir, relative), dir given by its segments
pathJoin(dir, relative) == normalizeSegments(dir, split(relative, "/"))

\* The resources directory and the prompts directory, by their segments.
ResourcesRoot == <<<<"r", "e", "s", "o", "u", "r", "c", "e", "s">>>>

PromptsRoot == <<<<"p", "r", "o", "m", "p", "t", "s">>>>

\* fs.readFile of the entry the segments lead to in a listing: <<text>>, or
\* <<>> when it throws (no such entry, a directory, an unreadable file).
RECURSIVE readEntry(_, _)
readEntry(entries, segments) ==
  LET found == {i \in 1..Len(entries) : entries[i].name = Head(segments)}
  IN IF segments = <<>> \/ found = {} THEN <<>>
     ELSE LET e == entries[Min(found)]
          IN IF Len(segments) = 1
             THEN IF e.stat = "file" THEN e.read ELSE <<>>
             ELSE IF e.stat = "directory" THEN readEntry(e.nested, Tail(segments))
             ELSE <<>>

readFileAt(fs, filePath) ==
  IF filePath = <<>> THEN <<>>
  ELSE IF Head(filePath) = Head(ResourcesRoot) /\ fs.resources # <<>>
  THEN readEntry(fs.resources[1], Tail(filePath))
  ELSE IF Head(filePath) = Head(PromptsRoot) /\ fs.prompts # <<>>
  THEN readEntry(fs.prompts[1], Tail(filePath))
  ELSE <<>>

\* The template file://{path} is registered after the loop of
\* loadResources: the directory was listed and no stat of a .txt entry threw.
FileResourceRegistered(fs) ==
  /\ fs.resources # <<>>
  /\ \A e \in Range(fs.resources[1]) : ~(isTxt(e.name) /\ e.stat = "error")

Init ==
  /\ pc = "main"
  /\ fixture \in FileSystems
  /\ rawContent = <<>>
  /\ metadata = EmptyMetadata
  /\ content = <<>>
  /\ resourceMap = <<>>
  /\ processedContent = <<>>
  /\ variables = <<>>
  /\ server = <<>>
  /\ files = <<>>
  /\ log = EmptyLog
  /\ request = <<>>
  /\ reply = <<>>
  /\ exitCode = <<>>

Next ==
  \/ Main
  \/ StartServer
  \/ LoadResources
  \/ ProcessResourceFile
  \/ FinishLoadResources
  \/ LoadPrompts
  \/ ProcessPromptFile
  \/ FinishLoadPrompts
  \/ Connect
  \/ GetPrompt
  \/ CallTool

Spec == Init /\ [][Next]_vars

----------------------------------------------------------------------------
(* What a scan loads *)

AfterResources == {"loadPrompts", "processPromptFile", "connect", "serving", "exit"}

AfterPrompts == {"connect", "serving", "exit"}

HasTxtName(e) == Len(e.name) > 4 /\ SubSeq(e.name, Len(e.name) - 3, Len(e.name)) = <<".", "t", "x", "t">>

NameWithoutTxt(e) == SubSeq(e.name, 1, Len(e.name) - 4)

\* The regular .txt files of a listing that can be read.
QualifyingFiles(listing) ==
  {e \in Range(listing) : HasTxtName(e) /\ e.stat = "file" /\ e.read # <<>>}

\* The entries that make a file fail: stat throws, or the read does.
FailingFiles(listing) ==
  {e \in Range(listing) : HasTxtName(e) /\ (e.stat = "error" \/ (e.stat = "file" /\ e.read = <<>>))}

\* The regular .txt files one level below the root, as <<path, content>>.
NestedFiles(listing) ==
  UNION { {<<d.name \o <<"/">> \o NameWithoutTxt(n), n.read[1]>> :
             n \in QualifyingFiles(d.nested)} :
          d \in {e \in Range(listing) : e.stat = "directory"} }

\* C14: the scan is recursive: every regular .txt file at any depth under
\* the resources root is in the resource map under its path relative to the
\* root, without the extension (docs/intro.txt under docs/intro).  Stated for
\* the directories none of whose files fails.
C14_NestedFilesLoaded ==
  (/\ pc \in AfterResources
   /\ fixture.resources # <<>>
   /\ FailingFiles(fixture.resources[1]) = {})
    => /\ \A e \in QualifyingFiles(fixture.resources[1]) :
            mapGet(resourceMap, <<"f", "i", "l", "e", ":", "/", "/">> \o NameWithoutTxt(e)) = <<e.read[1]>>
       /\ \A n \in NestedFiles(fixture.resources[1]) :
            mapGet(resourceMap, <<"f", "i", "l", "e", ":", "/", "/">> \o n[1]) = <<n[2]>>

\* The files at the root are loaded under their names without the
\* extension: it holds.
C14_RootFilesLoaded ==
  (/\ pc \in AfterResources
   /\ fixture.resources # <<>>
   /\ FailingFiles(fixture.resources[1]) = {})
    => \A e \in QualifyingFiles(fixture.resources[1]) :
         mapGet(resourceMap, <<"f", "i", "l", "e", ":", "/", "/">> \o NameWithoutTxt(e)) = <<e.read[1]>>

ErrorLines == {i \in 1..Len(log.lines) : log.lines[i].level = "ERROR"}

\* C15: a scan loads only regular .txt files, and skips directories and
\* other files without error: what is loaded is among the regular .txt files
\* of the directory, and a directory whose only other entries are
\* directories and files of another extension is loaded whole, with no error
\* logged; one subdirectory and one qualifying file make exactly one entry.
C15_OnlyRegularTxtLoaded ==
  /\ (pc \in AfterResources /\ fixture.resources # <<>>)
       => /\ DOMAIN resourceMap \subseteq
               {<<"f", "i", "l", "e", ":", "/", "/">> \o NameWithoutTxt(e) : e \in QualifyingFiles(fixture.resources[1])}
          /\ FailingFiles(fixture.resources[1]) = {}
               => /\ Cardinality(DOMAIN resourceMap)
                       = Cardinality(QualifyingFiles(fixture.resources[1]))
                  /\ "file-resource" \in server.templates
                  /\ pc = "loadPrompts" => ErrorLines = {}
  /\ (pc \in AfterPrompts /\ fixture.prompts # <<>>)
       => /\ DOMAIN server.prompts \subseteq
               {NameWithoutTxt(e) : e \in QualifyingFiles(fixture.prompts[1])}
          /\ FailingFiles(fixture.prompts[1]) = {}
               => Cardinality(DOMAIN server.prompts)
                    = Cardinality(QualifyingFiles(fixture.prompts[1]))

\* A subdirectory and a qualifying file have been scanned, and one entry is
\* loaded.
C15_Witness ==
  /\ pc = "serving"
  /\ fixture.resources # <<>>
  /\ Len(fixture.resources[1]) = 2
  /\ fixture.resources[1][1].stat = "directory"
  /\ QualifyingFiles(fixture.resources[1]) = {fixture.resources[1][2]}
  /\ Cardinality(DOMAIN resourceMap) = 1
  /\ ErrorLines = {}

\* C16: when one file of a directory fails at any step, that file is logged
\* and skipped and every other qualifying file of the directory is still
\* loaded and registered; the scan is never aborted by one file.
C16_OtherFilesStillLoaded ==
  /\ (pc \in AfterResources /\ fixture.resources # <<>>)
       => \A e \in QualifyingFiles(fixture.resources[1]) :
            /\ mapGet(resourceMap, <<"f", "i", "l", "e", ":", "/", "/">> \o NameWithoutTxt(e)) = <<e.read[1]>>
            /\ <<"f", "i", "l", "e", ":", "/", "/">> \o NameWithoutTxt(e) \in DOMAIN server.resources
  /\ (pc \in AfterPrompts /\ fixture.prompts # <<>>)
       => \A e \in QualifyingFiles(fixture.prompts[1]) :
            NameWithoutTxt(e) \in DOMAIN server.prompts

\* A file that cannot be read is logged and skipped, and the files after
\* it are loaded: it holds for the directories where no stat fails.
C16_ReadFailureSkipped ==
  (/\ pc \in AfterResources
   /\ fixture.resources # <<>>
   /\ \A e \in Range(fixture.resources[1]) : e.stat # "error")
    => \A e \in QualifyingFiles(fixture.resources[1]) :
         mapGet(resourceMap, <<"f", "i", "l", "e", ":", "/", "/">> \o NameWithoutTxt(e)) = <<e.read[1]>>

\* C17: when the resources or the prompts directory cannot be accessed, the
\* phase ends without throwing: loadResources returns an empty map and
\* registers nothing, loadPrompts registers nothing, and startServer goes on
\* with the next phase and with serving.
C17_InaccessibleDirectoryTolerated ==
  /\ [](/\ (pc \in AfterResources /\ fixture.resources = <<>>)
             => /\ resourceMap = <<>>
                /\ server.resources = <<>>
                /\ server.templates = {}
        /\ (pc \in AfterPrompts /\ fixture.prompts = <<>>)
             => /\ server.prompts = <<>>
                /\ server.tools = <<>>
        /\ pc = "exit"
             => /\ Len(log.lines) >= 2
                /\ log.lines[Len(log.lines) - 1].message = "Failed to start server"
                /\ log.lines[Len(log.lines)].message = "Fatal error in main")
  /\ [][/\ (pc = "loadResources" /\ fixture.resources = <<>>) => pc' = "loadPrompts"
        /\ (pc = "loadPrompts" /\ fixture.prompts = <<>>) => pc' = "connect"]_vars

\* Neither directory could be accessed, and the server is serving.
C17_Witness ==
  /\ pc = "serving"
  /\ fixture.resources = <<>>
  /\ fixture.prompts = <<>>
  /\ server.connected
  /\ Len(log.lines) >= 2

----------------------------------------------------------------------------
(* What is registered for a template *)

\* The templates loadPrompts has processed: the qualifying files that no
\* file whose stat fails comes before.
LoadedTemplates ==
  IF fixture.prompts = <<>> THEN {}
  ELSE LET listing == fixture.prompts[1]
           reached(i) == \A j \in 1..i : ~(HasTxtName(listing[j]) /\ listing[j].stat = "error")
       IN {listing[i] : i \in {k \in 1..Len(listing) :
                                 reached(k) /\ listing[k] \in QualifyingFiles(listing)}}

MetadataOf(e) == parseMetadata(e.read[1]).metadata

ResolvedBodyOf(e) == processPromptContent(parseMetadata(e.read[1]).content, resourceMap)

\* For each loaded template: the base name of its file, its metadata, its
\* resolved body and the name a tool made of it is exposed under.
TemplateRecords ==
  [e \in LoadedTemplates |->
     LET md == MetadataOf(e)
     IN [name |-> NameWithoutTxt(e),
         metadata |-> md,
         body |-> ResolvedBodyOf(e),
         exposed |-> IF md.toolName # <<>> THEN md.toolName[1] ELSE NameWithoutTxt(e)]]

\* C18: every loaded template is registered as a prompt under the base name
\* of its file, whatever its metadata says (register_as_prompt: false and a
\* name field included), with the description exactly when the metadata has
\* one, and retrieving the prompt returns the resolved body.
C18_AlwaysRegisteredAsPrompt ==
  LET t == TemplateRecords
  IN /\ pc \in AfterPrompts
          => /\ DOMAIN server.prompts = {t[e].name : e \in DOMAIN t}
             /\ \A e \in DOMAIN t :
                  /\ server.prompts[t[e].name].text = t[e].body
                  /\ server.prompts[t[e].name].description = t[e].metadata.description
             /\ PlainFile \in DOMAIN t
                  => /\ <<"o", "t", "h", "e", "r">> \notin DOMAIN server.prompts
                     /\ server.prompts[<<"p", "l", "a", "i", "n">>].description = <<>>
             /\ SenseiFile \in DOMAIN t
                  => server.prompts[<<"s", "e", "n", "s", "e", "i">>].description = <<<<"M", "a", "i", "n">>>>
     /\ (pc = "serving" /\ request # <<>> /\ request.method = "prompts/get")
          => \E e \in DOMAIN t :
               /\ t[e].name = request.toolName
               /\ reply = <<t[e].body>>

\* The template with register_as_prompt: false and a name field has been
\* retrieved under the name of its file.
C18_Witness ==
  /\ pc = "serving"
  /\ request # <<>>
  /\ request.method = "prompts/get"
  /\ request.toolName = <<"p", "l", "a", "i", "n">>
  /\ MetadataOf(PlainFile).registerAsPrompt = <<FALSE>>
  /\ MetadataOf(PlainFile).name = <<<<"o", "t", "h", "e", "r">>>>
  /\ MetadataOf(PlainFile).description = <<>>
  /\ reply = <<<<"S", "e", "e", " ", "[", "R", "e", "s", "o", "u", "r", "c", "e", " ", "n", "o", "t", " ", "f", "o", "u", "n", "d", ":", " ", "d", "o", "c", "s", "/", "i", "n", "t", "r", "o", "]">>>>

\* C19: a template is registered as a tool as well exactly when its tool
\* flag is true; the tool is exposed under the tool_name override when there
\* is one and under the base name of the file otherwise, and its inputs are
\* the variable names of the resolved body, each optional.
C19_ToolExactlyWhenFlagged ==
  pc \in AfterPrompts
    => LET t == TemplateRecords
           flagged == {e \in DOMAIN t : t[e].metadata.registerAsTool = <<TRUE>>}
       IN /\ DOMAIN server.tools = {t[e].exposed : e \in flagged}
          /\ \A e \in flagged :
               /\ server.tools[t[e].exposed].schema = Range(extractVariables(t[e].body))
               /\ server.tools[t[e].exposed].processed = t[e].body
          /\ SenseiFile \in DOMAIN t
               => /\ server.tools[<<"d", "o", "j", "o", "_", "s", "e", "n", "s", "e", "i">>].schema = {<<"t", "o", "p", "i", "c">>}
                  /\ <<"s", "e", "n", "s", "e", "i">> \notin DOMAIN server.tools
          /\ CalcFile \in DOMAIN t => server.tools[<<"c", "a", "l", "c">>].schema = {<<"x">>}
          /\ PlainFile \in DOMAIN t => <<"p", "l", "a", "i", "n">> \notin DOMAIN server.tools

\* A template with the override and one without are both tools.
C19_Witness ==
  /\ pc = "serving"
  /\ DOMAIN server.tools = {<<"d", "o", "j", "o", "_", "s", "e", "n", "s", "e", "i">>, <<"c", "a", "l", "c">>}
  /\ DOMAIN server.prompts = {<<"s", "e", "n", "s", "e", "i">>, <<"c", "a", "l", "c">>}

----------------------------------------------------------------------------
(* A tool of the one variable x invoked with x = 5 (SpecToolX)             *)

XParts == {<<"{", "{", "x", "}", "}">>, <<"x", " ", "=", " ">>, <<" ", "m", "o", "d", "e", "l">>, <<"#", "[", "k", "e", "y", "]", " ">>, <<"f", "n", " ", "s", "t", "r", "u", "c", "t", " ", "i", "m", "p", "l", " ">>}

InitToolX ==
  /\ pc = "ready"
  /\ fixture \in SeqsUpTo(XParts, MaxToolParts)
  /\ processedContent = concat(fixture)
  /\ variables = extractVariables(processedContent)
  /\ request \in [toolName : {<<"c", "a", "l", "c">>, <<"d", "o", "j", "o", "_", "m", "o", "d", "e", "l">>, <<"d", "o", "j", "o", "_", "x">>, <<"c", "o", "n", "f", "i", "g", "_", "c", "h", "e", "c", "k">>},
                  inputs : {[n \in {<<"x">>} |-> <<"5">>]}]
  /\ rawContent = <<>>
  /\ metadata = EmptyMetadata
  /\ content = <<>>
  /\ resourceMap = <<>>
  /\ server = <<>>
  /\ files = <<>>
  /\ log = <<>>
  /\ reply = <<>>
  /\ exitCode = <<>>

SpecToolX == InitToolX /\ [][ToolHandlerCall]_vars

\* The body with each part {{x}} replaced by 5.
BodyWithFive ==
  concat([i \in 1..Len(fixture) |-> IF fixture[i] = <<"{", "{", "x", "}", "}">> THEN <<"5">> ELSE fixture[i]])

IsPrefixOf(p, s) == Len(p) <= Len(s) /\ SubSeq(s, 1, Len(p)) = p

NudgeKeywords == modelKeywords \cup logicKeywords \cup configKeywords

HoldsKeyword(s) == \E keyword \in NudgeKeywords : includes(toLowerCase(s), keyword)

NamesDojo(toolName) == includes(toLowerCase(toolName), <<"d", "o", "j", "o">>)

C21_WitnessNudge ==
  /\ pc = "done"
  /\ variables = <<<<"x">>>>
  /\ request.toolName = <<"c", "a", "l", "c">>
  /\ processedContent = <<"{", "{", "x", "}", "}", " ", "m", "o", "d", "e", "l">>
  /\ reply = <<<<"5", " ", "m", "o", "d", "e", "l">> \o ModelNudge>>

----------------------------------------------------------------------------
(* Claims about the values a tool inserts (SpecTool)                       *)

TokenParts == {<<"{", "{", "a", "}", "}">>, <<"{", "{", "b", "}", "}">>, <<"{", "{", "i", "n", "p", "u", "t", "}", "}">>}

\* The name between the braces of a token part.
TokenName(part) == SubSeq(part, 3, Len(part) - 2)

\* The body in which every token part is replaced, in one pass, by the value
\* supplied for its name (the empty text if none was supplied).
SubstitutedParts ==
  concat([i \in 1..Len(fixture) |->
            IF fixture[i] \in TokenParts
            THEN inputOr(request.inputs, TokenName(fixture[i]))
            ELSE fixture[i]])

\* No supplied value holds a replacement pattern or a token.
PlainInputs == \A n \in DOMAIN request.inputs : request.inputs[n] \in {<<"5">>, <<>>}

\* No supplied value holds a replacement pattern.
NoPatternInputs == \A n \in DOMAIN request.inputs : request.inputs[n] # <<"$", "&">>

CatchAllSupplied ==
  <<"i", "n", "p", "u", "t">> \in DOMAIN request.inputs /\ request.inputs[<<"i", "n", "p", "u", "t">>] # <<>>

\* C22: for a tool that appends no nudge, the returned text is the
\* substituted text followed, exactly when the catch-all input was supplied
\* and input is not a variable of the template, by one copy of its value;
\* when input is a variable its value is not appended.
C22_CatchAllAppendedOnce ==
  (/\ pc = "done"
   /\ request.toolName = <<"c", "a", "l", "c">>
   /\ ~HoldsKeyword(processedContent)
   /\ PlainInputs)
    => reply[1] =
         SubstitutedParts \o
           (IF CatchAllSupplied /\ <<"i", "n", "p", "u", "t">> \notin Range(variables)
            THEN <<"\n", "\n">> \o request.inputs[<<"i", "n", "p", "u", "t">>]
            ELSE <<>>)

\* C27: the returned text begins with the body in which each token is
\* replaced by the value supplied for it, inserted as it is, whatever tokens
\* the value holds.
C27_ValuesInsertedAsTheyAre ==
  (pc = "done" /\ NoPatternInputs) => IsPrefixOf(SubstitutedParts, reply[1])

\* What the two formulas above rest on: with values that hold no token and
\* no pattern, and without the catch-all input, the substituted text is
\* returned.
PlainSubstitution ==
  (/\ pc = "done"
   /\ request.toolName = <<"c", "a", "l", "c">>
   /\ ~HoldsKeyword(processedContent)
   /\ PlainInputs
   /\ ~CatchAllSupplied)
    => reply[1] = SubstitutedParts

----------------------------------------------------------------------------
(* addDojoDocReferences applied to its own result (SpecRefs)               *)

InitRefs ==
  /\ pc = "ready"
  /\ fixture \in SeqsUpTo({<<"#", "[", "k", "e", "y", "]">>, <<"s", "e", "l", "f", ".", "w", "o", "r", "l", "d", "(">>, <<"S", "c", "a", "r", "b", ".", "t", "o", "m", "l">>, <<"f", "n", " ", "f", "(", ")", " ">>, <<"s", "t", "r", "u", "c", "t", " ", "S", " ", "i", "m", "p", "l", " ", "T", " ">>,
                          <<"d", "o", "j", "o", "e", "n", "g", "i", "n", "e", ".", "o", "r", "g", "/", "t", "o", "o", "l", "c", "h", "a", "i", "n">>, <<"x">>},
                         MaxToolParts)
  /\ processedContent = concat(fixture)
  /\ rawContent = <<>>
  /\ metadata = EmptyMetadata
  /\ content = <<>>
  /\ resourceMap = <<>>
  /\ variables = <<>>
  /\ server = <<>>
  /\ files = <<>>
  /\ log = <<>>
  /\ request = <<>>
  /\ reply = <<>>
  /\ exitCode = <<>>

AddReferences ==
  /\ pc = "ready"
  /\ content' = addDojoDocReferences(processedContent)
  /\ pc' = "once"
  /\ UNCHANGED <<fixture, rawContent, metadata, resourceMap, processedContent,
                 variables, server, files, log, request, reply, exitCode>>

AddReferencesAgain ==
  /\ pc = "once"
  /\ reply' = <<addDojoDocReferences(content)>>
  /\ pc' = "twice"
  /\ UNCHANGED <<fixture, rawContent, metadata, content, resourceMap, processedContent,
                 variables, server, files, log, request, exitCode>>

SpecRefs == InitRefs /\ [][AddReferences \/ AddReferencesAgain]_vars

\* C30: addDojoDocReferences applied to its own result returns that result
\* unchanged, on the model, system, config and general branch alike.
C30_ReferencesIdempotent == pc = "twice" => reply[1] = content

\* The same for content that does not take the general branch: content that
\* holds a model, system or config pattern, or not all of fn, struct and impl.
TakesGeneralBranch ==
  /\ content # processedContent
  /\ content = processedContent \o GeneralReferences

ModelSystemConfigIdempotent ==
  (pc = "twice" /\ ~TakesGeneralBranch) => reply[1] = content

----------------------------------------------------------------------------
(* The logger under a LOG_LEVEL setting (SpecLog).  request holds the      *)
(* setting and reply the levels of the calls made so far.                  *)

MaxLogCalls == 2

InitLog ==
  /\ pc = "initLogger"
  /\ request \in ({<<>>} \cup
        {<<v>> : v \in {<<>>, <<"t", "r", "a", "c", "e">>, <<"D", "E", "B", "U", "G">>, <<"I", "n", "f", "o">>, <<"w", "a", "r", "n">>, <<"E", "R", "R", "O", "R">>, <<"e", "R", "R", "o", "R">>,
                        <<"v", "e", "r", "b", "o", "s", "e">>, <<"W", "A", "R", "N", "I", "N", "G">>, <<" ", "i", "n", "f", "o">>, <<"4">>, <<"i", "n", "f">>}})
  /\ log = EmptyLog
  /\ reply = <<>>
  /\ fixture = <<>>
  /\ rawContent = <<>>
  /\ metadata = EmptyMetadata
  /\ content = <<>>
  /\ resourceMap = <<>>
  /\ processedContent = <<>>
  /\ variables = <<>>
  /\ server = <<>>
  /\ files = <<>>
  /\ exitCode = <<>>

InitLoggerCall ==
  /\ pc = "initLogger"
  /\ log' = initLogger(log, request)
  /\ pc' = "logging"
  /\ UNCHANGED <<fixture, rawContent, metadata, content, resourceMap, processedContent,
                 variables, server, files, request, reply, exitCode>>

LogCall(level) ==
  /\ pc = "logging"
  /\ Len(reply) < MaxLogCalls
  /\ log' = logLine(log, level, "message", <<>>)
  /\ reply' = Append(reply, level)
  /\ UNCHANGED <<pc, fixture, rawContent, metadata, content, resourceMap, processedContent,
                 variables, server, files, request, exitCode>>

TraceCall == LogCall("TRACE")

DebugCall == LogCall("DEBUG")

InfoCall == LogCall("INFO")

WarnCall == LogCall("WARN")

ErrorCall == LogCall("ERROR")

NextLog == InitLoggerCall \/ TraceCall \/ DebugCall \/ InfoCall \/ WarnCall \/ ErrorCall

SpecLog == InitLog /\ [][NextLog]_vars

\* The five level names in lower case, in the order of their numbers 0..4.
LevelNamesLower == <<<<"t", "r", "a", "c", "e">>, <<"d", "e", "b", "u", "g">>, <<"i", "n", "f", "o">>, <<"w", "a", "r", "n">>, <<"e", "r", "r", "o", "r">>>>

\* The level a setting selects: the number of the level it names in any
\* letter case, and INFO (2) for any other value and for no value.
SelectedLevel ==
  IF request # <<>> /\ \E i \in 1..5 : LevelNamesLower[i] = toLowerCase(request[1])
  THEN (CHOOSE i \in 1..5 : LevelNamesLower[i] = toLowerCase(request[1])) - 1
  ELSE 2

LevelNumber(level) ==
  CASE level = "TRACE" -> 0 [] level = "DEBUG" -> 1 [] level = "INFO" -> 2
    [] level = "WARN" -> 3 [] level = "ERROR" -> 4

\* The levels of the lines emitted by the calls, the line of initLogger left out.
EmittedLevels ==
  LET called == SelectSeq(log.lines, LAMBDA line : line.message = "message")
  IN [i \in 1..Len(called) |-> called[i].level]

AtOrAboveSelected(level) == LevelNumber(level) >= SelectedLevel

\* C24: after initLogger the current level is the one LOG_LEVEL names in any
\* letter case, and INFO for every other value and for no value; the calls
\* that emitted a line are exactly those whose level is at or above it.
C24_LevelFromSetting ==
  pc = "logging"
    => /\ log.currentLevel = SelectedLevel
       /\ EmittedLevels = SelectSeq(reply, AtOrAboveSelected)

\* A level written in mixed case was selected, and a call below it was made
\* and left no line while a call above it left one.
C24_Witness ==
  /\ pc = "logging"
  /\ request = <<<<"w", "a", "r", "n">>>>
  /\ log.currentLevel = 3
  /\ reply = <<"INFO", "ERROR">>
  /\ EmittedLevels = <<"ERROR">>

C24_WitnessUnrecognized ==
  /\ pc = "logging"
  /\ request = <<<<"v", "e", "r", "b", "o", "s", "e">>>>
  /\ log.currentLevel = 2
  /\ reply = <<"DEBUG", "INFO">>
  /\ EmittedLevels = <<"INFO">>

----------------------------------------------------------------------------
(* The lifecycle of the server *)

\* The position of each phase in the order main runs them.
Rank ==
  [main |-> 0, startServer |-> 1, loadResources |-> 2, processResourceFile |-> 3,
   loadPrompts |-> 4, processPromptFile |-> 5, connect |-> 6, serving |-> 7, exit |-> 8]

PromptsResolving == {"processPromptFile", "connect", "serving", "exit"}

\* C23: startup is linear: no phase is followed by an earlier one; the
\* resource map changes only during the resource scan, which is over before
\* any prompt is registered; each registered prompt holds its body resolved
\* against that map; and the server is connected only in the step that
\* follows both scans.
C23_LinearLifecycle ==
  /\ [](/\ (server # <<>> /\ server.prompts # <<>>) => pc \in PromptsResolving
        /\ (server # <<>> /\ server.connected) => pc = "serving"
        /\ pc = "serving" => server.connected
        /\ pc \in PromptsResolving
             => \A name \in DOMAIN server.prompts :
                  \E e \in LoadedTemplates :
                    /\ name = NameWithoutTxt(e)
                    /\ server.prompts[name].text = ResolvedBodyOf(e))
  /\ [][/\ Rank[pc'] >= Rank[pc]
        /\ resourceMap' # resourceMap => pc \in {"loadResources", "processResourceFile"}
        /\ (server # <<>> /\ server'.prompts # server.prompts)
             => /\ pc = "processPromptFile"
                /\ processedContent' = processPromptContent(content', resourceMap)
        /\ (server # <<>> /\ server'.connected # server.connected)
             => /\ pc = "connect"
                /\ pc' = "serving"
                /\ files = <<>>]_vars

\* The server is serving a prompt that was resolved against a resource of
\* the same pass.
C23_Witness ==
  /\ pc = "serving"
  /\ server.connected
  /\ <<"f", "i", "l", "e", ":", "/", "/", "p">> \in DOMAIN resourceMap
  /\ <<"s", "e", "n", "s", "e", "i">> \in DOMAIN server.prompts
  /\ server.prompts[<<"s", "e", "n", "s", "e", "i">>].text = <<"U", "s", "e", " ", "R", "1", " ", "f", "o", "r", " ", "{", "{", "t", "o", "p", "i", "c", "}", "}">>

\* C25: the process ends only in the catch of main after startServer has
\* thrown, with a status that is not zero; no step of a scan ends it,
\* whatever fails for a file or a reference; and when sensei.txt cannot be
\* read the server is created with empty instructions and startup goes on.
C25_OnlyStartupFailureExits ==
  /\ [](/\ exitCode # <<>>
             => /\ pc = "exit"
                /\ exitCode[1] # 0
                /\ ~server.connected
                /\ \E i \in 1..Len(log.lines) : log.lines[i].message = "Failed to start server"
        /\ pc = "exit" => exitCode # <<>>
        /\ (server # <<>> /\ senseiInstructions(fixture) = <<>>)
             => /\ server.instructions = <<>>
                /\ \E i \in 1..Len(log.lines) :
                     /\ log.lines[i].level = "WARN"
                     /\ log.lines[i].message
                          = "Failed to load sensei prompt for server instructions")
  /\ [][/\ exitCode' # exitCode => pc = "connect"
        /\ pc \in {"startServer", "loadResources", "processResourceFile",
                   "loadPrompts", "processPromptFile"}
             => pc' # "exit"]_vars

\* The transport could not attach after a startup in which files failed and
\* sensei.txt was missing: the process has ended with status 1.
C25_Witness ==
  /\ pc = "exit"
  /\ exitCode = <<1>>
  /\ senseiInstructions(fixture) = <<>>
  /\ server.instructions = <<>>
  /\ fixture.prompts # <<>>
  /\ FailingFiles(fixture.prompts[1]) # {}

\* What a request returns by the templates as they were loaded.
ExpectedReply ==
  LET t == TemplateRecords
  IN IF request.method = "prompts/get"
     THEN {<<t[e].body>> : e \in {x \in DOMAIN t : t[x].name = request.toolName}}
     ELSE IF request.method = "tools/call"
     THEN {<<toolHandler(t[e].body, extractVariables(t[e].body), t[e].exposed, request.inputs)>> :
             e \in {x \in DOMAIN t : t[x].exposed = request.toolName
                                      /\ t[x].metadata.registerAsTool = <<TRUE>>}}
     ELSE {reply}

\* C26: once the server is serving no request changes the registry or the
\* resource map, and what a retrieval or an invocation returns is determined
\* by the templates as loaded and by its own inputs, whatever requests came
\* before it.
C26_ReadOnlyWhileServing ==
  /\ []((pc = "serving" /\ request # <<>>) => reply \in ExpectedReply)
  /\ [][pc = "serving" => (server' = server /\ resourceMap' = resourceMap /\ pc' = pc)]_vars

\* A tool has been invoked on a server that holds other templates as well.
C26_Witness ==
  /\ pc = "serving"
  /\ request # <<>>
  /\ request.method = "tools/call"
  /\ request.toolName = <<"c", "a", "l", "c">>
  /\ request.inputs = [n \in {<<"x">>} |-> <<"5">>]
  /\ reply = <<<<"x", " ", "=", " ", "5">>>>
  /\ <<"s", "e", "n", "s", "e", "i">> \in DOMAIN server.prompts

SpanNames == {s[1] : s \in log.spans}

\* C28: when loadResources has returned no span of loadResources or of one
\* of its files is open, the same holds of loadPrompts, and between two
\* steps no span of loadFile or of a tool is open.
C28_SpansEnded ==
  /\ pc \in AfterResources
       => SpanNames \cap {"loadResources", "processResourceFile"} = {}
  /\ pc \in AfterPrompts
       => SpanNames \cap {"loadPrompts", "processPromptFile"} = {}
  /\ SpanNames \cap {"loadFile", "toolExecution"} = {}
  /\ pc \in {"serving", "exit"} => log.spans = {}

\* The spans of the scans and handlers that end normally or in a catch of
\* their own are ended: only a span of a file whose stat failed stays open.
OnlyStatFailureLeavesSpan ==
  \A s \in log.spans :
    \/ s[1] \in {"main", "startServer"} /\ pc \notin {"serving", "exit"}
    \/ s[1] = "loadResources" /\ pc = "processResourceFile"
    \/ s[1] = "loadPrompts" /\ pc = "processPromptFile"
    \/ /\ s[1] = "processResourceFile"
       /\ \E e \in Range(fixture.resources[1]) : e.name = s[2] /\ e.stat = "error"
    \/ /\ s[1] = "processPromptFile"
       /\ \E e \in Range(fixture.prompts[1]) : e.name = s[2] /\ e.stat = "error"


\* Whether the template file://{path} is registered is decided by the
\* listing of the resources directory alone.
TemplateRegisteredByListing ==
  pc \in AfterResources
    => ("file-resource" \in server.templates <=> FileResourceRegistered(fixture))

----------------------------------------------------------------------------
(* The handler of the template file://{path} (SpecRead).  The fixture is   *)
(* a file system on which loadResources registered the template.           *)

\* resources/read of file://{path}: the handler of the template
\* file-resource, with the spans of the handler and of loadFile.
ReadFileResource ==
  /\ pc = "ready"
  /\ \E path \in {<<"p">>, <<"d", "o", "c", "s", "/", "i", "n", "t", "r", "o">>, <<"m", "i", "s", "s", "i", "n", "g">>, <<".", ".", "/", "p", "r", "o", "m", "p", "t", "s", "/", "s", "e", "n", "s", "e", "i">>} :
       LET filePath == pathJoin(ResourcesRoot, path \o <<".", "t", "x", "t">>)
           read == readFileAt(fixture, filePath)
           opened == spanStart(spanStart(log, "dynamicResourceLoad", path), "loadFile", path)
       IN /\ request' = [method |-> "resources/read", toolName |-> path,
                         inputs |-> <<>>, filePath |-> filePath]
          /\ IF read # <<>>
             THEN /\ reply' = read
                  /\ log' = spanEnd(spanEnd(opened, "loadFile", path),
                                    "dynamicResourceLoad", path)
             ELSE /\ reply' = <<<<"E", "r", "r", "o", "r", ":", " ", "R", "e", "s", "o", "u", "r", "c", "e", " ", "n", "o", "t", " ", "f", "o", "u", "n", "d", " ", "a", "t", " ", "p", "a", "t", "h", " ">> \o path>>
                  /\ log' = spanEnd(
                              logLine(
                                spanEnd(logLine(opened, "ERROR", "Failed to load file", path),
                                        "loadFile", path),
                                "ERROR", "Failed to load dynamic resource", path),
                              "dynamicResourceLoad", path)
  /\ pc' = "done"
  /\ UNCHANGED <<fixture, rawContent, metadata, content, resourceMap,
                 processedContent, variables, server, files, exitCode>>

InitRead ==
  /\ pc = "ready"
  /\ fixture \in {fs \in FileSystems : FileResourceRegistered(fs)}
  /\ log = EmptyLog
  /\ rawContent = <<>>
  /\ metadata = EmptyMetadata
  /\ content = <<>>
  /\ resourceMap = <<>>
  /\ processedContent = <<>>
  /\ variables = <<>>
  /\ server = <<>>
  /\ files = <<>>
  /\ request = <<>>
  /\ reply = <<>>
  /\ exitCode = <<>>

SpecRead == InitRead /\ [][ReadFileResource]_vars

\* C29: the file the handler of file://{path} reads is a .txt file below the
\* resources root, and the handler returns a text, which begins with
\* Error: Resource not found at path when the file cannot be read.
C29_ReadsInsideResourcesRoot ==
  pc = "done"
    => /\ IsPrefixOf(ResourcesRoot, request.filePath)
       /\ Len(request.filePath) > Len(ResourcesRoot)
       /\ endsWith(request.filePath[Len(request.filePath)], <<".", "t", "x", "t">>)
       /\ reply # <<>>
       /\ readFileAt(fixture, request.filePath) = <<>>
            => startsWith(reply[1], <<"E", "r", "r", "o", "r", ":", " ", "R", "e", "s", "o", "u", "r", "c", "e", " ", "n", "o", "t", " ", "f", "o", "u", "n", "d", " ", "a", "t", " ", "p", "a", "t", "h">>)

\* The part of C29 about failures: the handler never throws and reports a
\* file that cannot be read by the text of the error.
ReadFailureReported ==
  pc = "done"
    => /\ reply # <<>>
       /\ readFileAt(fixture, request.filePath) = <<>>
            => reply[1] = <<"E", "r", "r", "o", "r", ":", " ", "R", "e", "s", "o", "u", "r", "c", "e", " ", "n", "o", "t", " ", "f", "o", "u", "n", "d", " ", "a", "t", " ", "p", "a", "t", "h", " ">> \o request.toolName
       /\ readFileAt(fixture, request.filePath) # <<>>
            => reply = readFileAt(fixture, request.filePath)
====
